---- MODULE Spec2Model ----
(***************************************************************************)
(* State-machine model of the sqlit TUI's connection and query lifecycle:  *)
(* ConnectionMixin (src/sqlit/ui/mixins/connection.py) and QueryMixin      *)
(* (src/sqlit/ui/mixins/query.py) running on the SSMSTUI app               *)
(* (src/sqlit/app.py).                                                     *)
(*                                                                         *)
(* One interactive thread (the event loop) runs the action handlers, the   *)
(* worker coroutines and the callbacks marshalled with call_from_thread;   *)
(* blocking work (ConnectionSession.create, CancellableQuery.execute) runs *)
(* in threads.  Every handler is one atomic action; every thread step is   *)
(* one action that interleaves freely with the handlers.                   *)
(*                                                                         *)
(* Workers: run_worker(..., exclusive=True) cancels the workers already    *)
(* registered on the app (all of them are started on the app, in the       *)
(* default group).  Cancelling a worker cancels its event-loop task: a     *)
(* task that has not started never runs; a coroutine awaiting a thread     *)
(* receives CancelledError at its next resumption (only its finally block  *)
(* runs); the thread itself is not interrupted and runs to its end.        *)
(***************************************************************************)
EXTENDS Integers, FiniteSets, Sequences, TLC

\* Bound of the model: workers (connect and query) started per run.
MaxJobs == 3

CJobIds == 1..MaxJobs
QIds == 1..MaxJobs

\* Python's None for references held as identifiers.
None == 0

\* Saved connections offered by the explorer tree: one server engine reached
\* through an SSH tunnel, one SQL Server connection (needs pyodbc).
Configs ==
    { [name |-> "a", db_type |-> "postgresql", ssh |-> TRUE],
      [name |-> "b", db_type |-> "mssql", ssh |-> FALSE] }

ConfigNames == {c.name : c \in Configs}

VARIABLES
    pyodbc,               \* PYODBC_AVAILABLE: whether `import pyodbc` succeeds
    cjob,                 \* connect workers, by request number
    ncon,                 \* connect workers started so far
    sess,                 \* ConnectionSession objects, by the worker that created them
    _session,             \* app._session (a session id or None)
    current_connection,   \* app.current_connection (id of the owning session or None)
    current_config,       \* app.current_config (a config name or "none")
    current_adapter,      \* app.current_adapter (id of the owning session or None)
    current_ssh_tunnel,   \* app.current_ssh_tunnel (id of the owning session or None)
    _connection_failed,   \* app._connection_failed
    qjob,                 \* query workers and their CancellableQuery, by request number
    nq,                   \* query workers started so far
    _query_worker,        \* app._query_worker (a query id or None)
    _query_executing,     \* app._query_executing
    _cancellable_query,   \* app._cancellable_query (a query id or None)
    table,                \* content of #results-table: [kind, q]
    last_result,          \* the _last_result_* buffers: [kind, q]
    hist,                 \* query history: <<connection name, q>> entries saved
    fetch,                \* a call of the adapter's execute_query: cursor, arguments, result
    history,              \* query_history.json: the entries, in file order
    clock,                \* datetime.now() of the latest save
    nsaves,               \* save_query_to_history calls made in this run
    store,                \* connections.json: the saved connections, in file order
    connections,          \* app.connections: the list the app loaded and edits
    mounted,              \* whether the app's on_mount has loaded the connections
    lastcmd,              \* the latest connection command or dialog save: [cmd, name, rc]
    db,                   \* the database of connection "x": rows inserted and committed
    cli,                  \* the latest `query` command: its arguments and what it did
    ninv,                 \* `query` commands run so far
    connstr,              \* a SQL Server configuration and the string built from it
    norm,                 \* the options of a connection and the configuration made of them
    quoted,               \* an identifier and its quoted form
    attempt,              \* a connect attempt: configuration, environment, outcome, screen
    test,                 \* a run of the dialog's connection test
    schema,               \* the schema cache, the session it serves and the indexing jobs
    keys                  \* the key handling: vim mode, focus, leader key, the latest key

connVars == <<pyodbc, cjob, ncon, sess, _session, current_connection, current_config,
              current_adapter, current_ssh_tunnel, _connection_failed>>
sessionFields == <<_session, current_connection, current_config, current_adapter,
                   current_ssh_tunnel>>
queryVars == <<qjob, nq, _query_worker, _query_executing, _cancellable_query, table,
               last_result, hist>>
\* State outside the running app: adapter calls, the stores on disk, the CLI.
histVars == <<history, clock, nsaves>>
storeVars == <<store, connections, mounted, lastcmd>>
cliVars == <<db, cli, ninv>>
adapterVars == <<connstr, norm, quoted, attempt, test>>
toolVars == <<fetch, histVars, storeVars, cliVars, adapterVars, schema, keys>>
appVars == <<connVars, queryVars>>
vars == <<appVars, toolVars>>

----------------------------------------------------------------------------
\* Initial records

NoCJob == [st |-> "unused", cfg |-> "none", cancelled |-> FALSE]
NoSess == [conn |-> "none", tunnel |-> "none", closeCalls |-> 0, cfg |-> "none"]
NoQJob == [task |-> "unused", cancelReq |-> FALSE, cq |-> "none", flag |-> FALSE,
           conn |-> "none", th |-> "none", out |-> "none", cfg |-> "none",
           shown |-> "none", cancelAt |-> "none"]
EmptyView == [kind |-> "empty", q |-> None]

\* SSMSTUI.__init__: nothing connected, nothing running, no result.
AppInit ==
    /\ pyodbc \in BOOLEAN
    /\ cjob = [j \in CJobIds |-> NoCJob]
    /\ ncon = 0
    /\ sess = [j \in CJobIds |-> NoSess]
    /\ _session = None
    /\ current_connection = None
    /\ current_config = "none"
    /\ current_adapter = None
    /\ current_ssh_tunnel = None
    /\ _connection_failed = FALSE
    /\ qjob = [q \in QIds |-> NoQJob]
    /\ nq = 0
    /\ _query_worker = None
    /\ _query_executing = FALSE
    /\ _cancellable_query = None
    /\ table = EmptyView
    /\ last_result = EmptyView
    /\ hist = {}

----------------------------------------------------------------------------
\* Workers (textual.worker as used by run_worker / Worker.cancel)

\* Worker.cancel() on a thread worker: the worker is marked cancelled; its
\* thread is not interrupted.
CancelConnectWorker(r) ==
    IF r.st \in {"scheduled", "running", "deliver_ok", "deliver_err"}
    THEN [r EXCEPT !.cancelled = TRUE] ELSE r

\* Worker.cancel() on a coroutine worker: its task is cancelled.
CancelQueryWorker(r) ==
    IF r.task \in {"scheduled", "awaiting"} THEN [r EXCEPT !.cancelReq = TRUE] ELSE r

\* exclusive=True: every worker already on the app is cancelled.
CancelGroupConnect(cj) == [j \in CJobIds |-> CancelConnectWorker(cj[j])]
CancelGroupQuery(qj) == [q \in QIds |-> CancelQueryWorker(qj[q])]

----------------------------------------------------------------------------
\* ConnectionSession

\* ConnectionSession.close(): closes the connection, stops an owned tunnel;
\* idempotent.  closeCalls counts the calls the app makes.
SessionClose(S, s) ==
    [S EXCEPT ![s] = [@ EXCEPT !.conn = IF @ = "open" THEN "closed" ELSE @,
                               !.tunnel = IF @ = "open" THEN "stopped" ELSE @,
                               !.closeCalls = @ + 1]]

\* ConnectionSession.create(config) succeeded: a live connection, and a
\* tunnel when the config enables SSH.
NewSession(cfg) ==
    [conn |-> "open", tunnel |-> IF cfg.ssh THEN "open" ELSE "none",
     closeCalls |-> 0, cfg |-> cfg.name]

ConfigOf(name) == CHOOSE c \in Configs : c.name = name

----------------------------------------------------------------------------
\* ConnectionMixin

\* connect_to_server, lines 45-47: SQL Server without pyodbc is refused.
DriverMissing(cfg) == cfg.db_type = "mssql" /\ ~pyodbc

\* connect_to_server, lines 59-98: reset the failed flag and start the
\* exclusive thread worker "connect-<name>".
StartConnect(cfg) ==
    /\ ncon + nq < MaxJobs
    /\ _connection_failed' = FALSE
    /\ ncon' = ncon + 1
    /\ cjob' = [CancelGroupConnect(cjob) EXCEPT
                  ![ncon + 1] = [st |-> "scheduled", cfg |-> cfg.name, cancelled |-> FALSE]]
    /\ qjob' = CancelGroupQuery(qjob)

\* _disconnect_silent: close the session if there is one, clear the fields.
DisconnectSilent ==
    /\ sess' = IF _session # None THEN SessionClose(sess, _session) ELSE sess
    /\ _session' = None
    /\ current_connection' = None
    /\ current_config' = "none"
    /\ current_adapter' = None
    /\ current_ssh_tunnel' = None

\* connect_to_server(config): close any existing session first, then start
\* the connect worker.
connect_to_server(cfg) ==
    /\ ~DriverMissing(cfg)
    /\ IF _session # None
       THEN /\ sess' = SessionClose(sess, _session)
            /\ _session' = None
            /\ current_connection' = None
            /\ current_config' = "none"
            /\ current_adapter' = None
            /\ current_ssh_tunnel' = None
       ELSE UNCHANGED <<sess, sessionFields>>
    /\ StartConnect(cfg)
    /\ UNCHANGED <<pyodbc, nq, _query_worker, _query_executing, _cancellable_query,
                   table, last_result, hist>>
    /\ UNCHANGED toolVars

\* action_connect_selected with the tree cursor on the connection node of cfg.
action_connect_selected(cfg) ==
    /\ current_config # cfg.name
    /\ IF current_connection # None
       THEN /\ DisconnectSilent
            /\ IF DriverMissing(cfg)
               THEN UNCHANGED <<cjob, ncon, qjob, _connection_failed>>
               ELSE StartConnect(cfg)
            /\ UNCHANGED <<pyodbc, nq, _query_worker, _query_executing,
                           _cancellable_query, table, last_result, hist>>
       ELSE connect_to_server(cfg)
    /\ UNCHANGED toolVars

\* action_disconnect (also reached through action_leader_disconnect).
action_disconnect ==
    /\ current_connection # None
    /\ DisconnectSilent
    /\ UNCHANGED <<pyodbc, cjob, ncon, _connection_failed, queryVars>>
    /\ UNCHANGED toolVars

\* The connect worker's task starts its thread, unless it was cancelled first.
ConnectWorkerStart(j) ==
    /\ cjob[j].st = "scheduled"
    /\ cjob' = [cjob EXCEPT ![j].st = IF cjob[j].cancelled THEN "dead" ELSE "running"]
    /\ UNCHANGED <<pyodbc, ncon, sess, sessionFields, _connection_failed, queryVars>>
    /\ UNCHANGED toolVars

\* work(), in the worker thread: ConnectionSession.create(config) returns a
\* session or raises; on failure no connection or tunnel is left alive.
create_session(j) ==
    /\ cjob[j].st = "running"
    /\ \/ /\ sess' = [sess EXCEPT ![j] = NewSession(ConfigOf(cjob[j].cfg))]
          /\ cjob' = [cjob EXCEPT ![j].st = "deliver_ok"]
       \/ /\ cjob' = [cjob EXCEPT ![j].st = "deliver_err"]
          /\ UNCHANGED sess
    /\ UNCHANGED <<pyodbc, ncon, sessionFields, _connection_failed, queryVars>>
    /\ UNCHANGED toolVars

\* on_success(session), marshalled to the interactive thread: install the
\* session (the tree, schema-cache and status-bar refreshes that follow
\* change none of these fields).
on_success(j) ==
    /\ cjob[j].st = "deliver_ok"
    /\ _connection_failed' = FALSE
    /\ _session' = j
    /\ current_connection' = j
    /\ current_config' = cjob[j].cfg
    /\ current_adapter' = j
    /\ current_ssh_tunnel' = IF sess[j].tunnel = "none" THEN None ELSE j
    /\ cjob' = [cjob EXCEPT ![j].st = "finished"]
    /\ UNCHANGED <<pyodbc, ncon, sess, queryVars>>
    /\ UNCHANGED toolVars

\* on_error(error), marshalled to the interactive thread.
on_error(j) ==
    /\ cjob[j].st = "deliver_err"
    /\ _connection_failed' = TRUE
    /\ cjob' = [cjob EXCEPT ![j].st = "finished"]
    /\ UNCHANGED <<pyodbc, ncon, sess, sessionFields, queryVars>>
    /\ UNCHANGED toolVars

----------------------------------------------------------------------------
\* CancellableQuery (services module): CREATED -> RUNNING ->
\* {COMPLETED | FAILED | CANCELLED} on a dedicated connection.

\* What execute() hands back to its caller.
Results == {"rows", "affected"}
\* Errors raised out of execute(): a RuntimeError whose message says
\* "cancelled", another RuntimeError, any other exception.
Errors == {"runtime_cancelled", "runtime_other", "other"}
\* A genuine failure (flag not set) carries the engine's own message; with the
\* flag set execute() signals the cancellation or lets the driver error out.
FailureErrors == {"runtime_other", "other"}
CancelErrors == {"runtime_cancelled", "other"}

\* CancellableQuery(sql, config, adapter): nothing is opened yet.
NewCancellable(r, cfgName) ==
    [r EXCEPT !.cq = "CREATED", !.flag = FALSE, !.conn = "none", !.cfg = cfgName]

\* CancellableQuery.cancel(): set the flag, then close the dedicated
\* connection; before execute() has begun the query is CANCELLED at once.
CancellableCancel(r) ==
    [r EXCEPT !.flag = TRUE,
              !.conn = IF @ = "open" THEN "closed" ELSE @,
              !.cq = IF @ = "CREATED" THEN "CANCELLED" ELSE @]

\* execute(), first step in the thread: refuse when already cancelled, else
\* open the dedicated connection with adapter.connect(config).
ExecOpen(q) ==
    /\ qjob[q].th = "start"
    /\ \/ /\ qjob[q].flag
          /\ qjob' = [qjob EXCEPT ![q].th = "finished", ![q].cq = "CANCELLED",
                                  ![q].out = "runtime_cancelled"]
       \/ /\ ~qjob[q].flag
          /\ qjob' = [qjob EXCEPT ![q].th = "opened", ![q].cq = "RUNNING",
                                  ![q].conn = "open"]
       \/ /\ ~qjob[q].flag
          /\ \E e \in FailureErrors :
                qjob' = [qjob EXCEPT ![q].th = "finished", ![q].cq = "FAILED",
                                     ![q].out = e]
    /\ UNCHANGED <<connVars, nq, _query_worker, _query_executing, _cancellable_query,
                   table, last_result, hist>>
    /\ UNCHANGED toolVars

\* execute(), the driver call returns or raises: with the flag set the error
\* is a cancellation; otherwise a result or a genuine failure.  The dedicated
\* connection is closed on the way out.
ExecFinish(q) ==
    /\ qjob[q].th = "opened"
    /\ \/ /\ qjob[q].flag
          /\ \E e \in CancelErrors :
                qjob' = [qjob EXCEPT ![q].th = "finished", ![q].cq = "CANCELLED",
                                     ![q].out = e, ![q].conn = "closed"]
       \/ /\ ~qjob[q].flag
          /\ \E o \in Results :
                qjob' = [qjob EXCEPT ![q].th = "finished", ![q].cq = "COMPLETED",
                                     ![q].out = o, ![q].conn = "closed"]
       \/ /\ ~qjob[q].flag
          /\ \E e \in FailureErrors :
                qjob' = [qjob EXCEPT ![q].th = "finished", ![q].cq = "FAILED",
                                     ![q].out = e, ![q].conn = "closed"]
    /\ UNCHANGED <<connVars, nq, _query_worker, _query_executing, _cancellable_query,
                   table, last_result, hist>>
    /\ UNCHANGED toolVars

----------------------------------------------------------------------------
\* QueryMixin

\* execute_query_common with a fault: the previous worker is left running
\* (no cancel(), no exclusive=True).
execute_query_common_KeepsOld ==
    /\ current_connection # None
    /\ current_adapter # None
    /\ ncon + nq < MaxJobs
    /\ table' = [kind |-> "executing", q |-> nq + 1]
    /\ _query_executing' = TRUE
    /\ nq' = nq + 1
    /\ qjob' = [qjob EXCEPT ![nq + 1] = [NoQJob EXCEPT !.task = "scheduled"]]
    /\ _query_worker' = nq + 1
    /\ UNCHANGED <<pyodbc, cjob, ncon, sess, sessionFields, _connection_failed,
                   _cancellable_query, last_result, hist>>
    /\ UNCHANGED toolVars

\* _execute_query_common with a non-empty query text: cancel the previous
\* worker, show "Executing query...", start the spinner and the exclusive
\* worker "query_execution".
execute_query_common ==
    /\ current_connection # None
    /\ current_adapter # None
    /\ ncon + nq < MaxJobs
    /\ table' = [kind |-> "executing", q |-> nq + 1]
    /\ _query_executing' = TRUE
    /\ nq' = nq + 1
    /\ qjob' = [CancelGroupQuery(qjob) EXCEPT ![nq + 1] = [NoQJob EXCEPT !.task = "scheduled"]]
    /\ cjob' = CancelGroupConnect(cjob)
    /\ _query_worker' = nq + 1
    /\ UNCHANGED <<pyodbc, ncon, sess, sessionFields, _connection_failed,
                   _cancellable_query, last_result, hist>>
    /\ UNCHANGED toolVars

\* The event loop runs callbacks in the order they were queued: the
\* resumption of an older cancelled coroutine precedes the start of q.
OlderCancelPending(q) ==
    \E p \in QIds : p < q /\ qjob[p].task = "awaiting" /\ qjob[p].cancelReq

\* RunQueryStart with a fault: the dedicated connection is opened when the
\* CancellableQuery is built instead of inside execute().
RunQueryStart_OpensEarly(q) ==
    /\ qjob[q].task = "scheduled"
    /\ ~OlderCancelPending(q)
    /\ IF qjob[q].cancelReq
       THEN /\ qjob' = [qjob EXCEPT ![q].task = "dead"]
            /\ UNCHANGED <<_cancellable_query, _query_executing, table, last_result, hist>>
       ELSE IF current_adapter = None \/ current_config = "none"
       THEN /\ qjob' = [qjob EXCEPT ![q].task = "done", ![q].shown = "error"]
            /\ table' = [kind |-> "error", q |-> q]
            /\ last_result' = [kind |-> "error", q |-> q]
            /\ _query_executing' = FALSE
            /\ UNCHANGED <<_cancellable_query, hist>>
       ELSE /\ qjob' = [qjob EXCEPT ![q] = [NewCancellable(@, current_config) EXCEPT
                                             !.task = "awaiting", !.th = "start",
                                             !.conn = "open"]]
            /\ _cancellable_query' = q
            /\ UNCHANGED <<_query_executing, table, last_result, hist>>
    /\ UNCHANGED <<connVars, nq, _query_worker>>
    /\ UNCHANGED toolVars

\* _run_query_async, lines 117-143: up to the await of
\* asyncio.to_thread(cancellable.execute, max_fetch_rows).
RunQueryStart(q) ==
    /\ qjob[q].task = "scheduled"
    /\ ~OlderCancelPending(q)
    /\ IF qjob[q].cancelReq
       THEN /\ qjob' = [qjob EXCEPT ![q].task = "dead"]
            /\ UNCHANGED <<_cancellable_query, _query_executing, table, last_result, hist>>
       ELSE IF current_adapter = None \/ current_config = "none"
       THEN /\ qjob' = [qjob EXCEPT ![q].task = "done", ![q].shown = "error"]
            /\ table' = [kind |-> "error", q |-> q]
            /\ last_result' = [kind |-> "error", q |-> q]
            /\ _query_executing' = FALSE
            /\ UNCHANGED <<_cancellable_query, hist>>
       ELSE /\ qjob' = [qjob EXCEPT ![q] = [NewCancellable(@, current_config) EXCEPT
                                             !.task = "awaiting", !.th = "start"]]
            /\ _cancellable_query' = q
            /\ UNCHANGED <<_query_executing, table, last_result, hist>>
    /\ UNCHANGED <<connVars, nq, _query_worker>>
    /\ UNCHANGED toolVars

\* ErrorDisplayed with a fault: every RuntimeError is taken for a cancellation.
ErrorDisplayed_SwallowsRuntime(e, is_cancelled) ==
    e = "other" /\ ~is_cancelled

\* Whether the except clauses of _run_query_async display the error.
ErrorDisplayed(e, is_cancelled) ==
    CASE e = "runtime_cancelled" -> FALSE
      [] e = "runtime_other" -> TRUE
      [] OTHER -> ~is_cancelled

\* RunQueryResume with a fault: the query is saved to the history in the
\* finally block, whenever execute() has returned a result.
RunQueryResume_SavesInFinally(q) ==
    /\ qjob[q].task = "awaiting"
    /\ qjob[q].cancelReq \/ qjob[q].th = "finished"
    /\ LET r == qjob[q]
           display == IF r.cancelReq THEN "none"
                      ELSE IF r.out \in Results THEN r.out
                      ELSE IF ErrorDisplayed(r.out, r.flag) THEN "error"
                      ELSE "none"
       IN /\ qjob' = [qjob EXCEPT ![q].task = "done",
                                  ![q].shown = IF display = "none" THEN @ ELSE display]
          /\ hist' = IF r.out \in Results THEN hist \cup {<<r.cfg, q>>} ELSE hist
          /\ IF display = "none"
             THEN UNCHANGED <<table, last_result>>
             ELSE /\ table' = [kind |-> display, q |-> q]
                  /\ last_result' = [kind |-> display, q |-> q]
    /\ _cancellable_query' = None
    /\ _query_executing' = FALSE
    /\ UNCHANGED <<connVars, nq, _query_worker>>
    /\ UNCHANGED toolVars

\* _run_query_async, lines 145-172: the coroutine resumes after the await,
\* with the result (saved to the history, then displayed), with the error
\* execute() raised, or with CancelledError when its worker was cancelled;
\* the finally block runs in every case.
RunQueryResume(q) ==
    /\ qjob[q].task = "awaiting"
    /\ qjob[q].cancelReq \/ qjob[q].th = "finished"
    /\ LET r == qjob[q]
           display == IF r.cancelReq THEN "none"
                      ELSE IF r.out \in Results THEN r.out
                      ELSE IF ErrorDisplayed(r.out, r.flag) THEN "error"
                      ELSE "none"
       IN /\ qjob' = [qjob EXCEPT ![q].task = "done",
                                  ![q].shown = IF display = "none" THEN @ ELSE display]
          /\ IF display = "none"
             THEN UNCHANGED <<table, last_result, hist>>
             ELSE /\ table' = [kind |-> display, q |-> q]
                  /\ last_result' = [kind |-> display, q |-> q]
                  /\ hist' = IF display \in Results
                             THEN hist \cup {<<r.cfg, q>>} ELSE hist
    /\ _cancellable_query' = None
    /\ _query_executing' = FALSE
    /\ UNCHANGED <<connVars, nq, _query_worker>>
    /\ UNCHANGED toolVars

\* When, in the life of query c, a user cancel acted on it.
CancelPoint(c) ==
    IF qjob[c].cancelAt # "none" THEN qjob[c].cancelAt
    ELSE IF qjob[c].th = "start" THEN "before_execute"
    ELSE IF qjob[c].th = "opened" THEN "during_execute"
    ELSE "after_execute"

\* CancelRunningQuery with a fault: the worker is cancelled but
\* _cancellable_query.cancel() is not called.
CancelRunningQuery_SkipsCancel ==
    /\ _query_executing
    /\ LET c == _cancellable_query
           w == _query_worker
           q1 == IF c # None
                 THEN [qjob EXCEPT ![c].cancelAt = CancelPoint(c)]
                 ELSE qjob
       IN qjob' = IF w # None THEN [q1 EXCEPT ![w] = CancelQueryWorker(@)] ELSE q1
    /\ _query_worker' = None
    /\ _query_executing' = FALSE
    /\ table' = [kind |-> "cancelled", q |-> None]
    /\ UNCHANGED <<connVars, nq, _cancellable_query, last_result, hist>>
    /\ UNCHANGED toolVars

\* CancelRunningQuery with a fault: the cancel also tears down the session, as
\* if the query ran on the session's connection.
CancelRunningQuery_ClosesSession ==
    /\ _query_executing
    /\ LET c == _cancellable_query
           w == _query_worker
           q1 == IF c # None
                 THEN [qjob EXCEPT ![c] = [CancellableCancel(@) EXCEPT
                                             !.cancelAt = CancelPoint(c)]]
                 ELSE qjob
       IN qjob' = IF w # None THEN [q1 EXCEPT ![w] = CancelQueryWorker(@)] ELSE q1
    /\ _query_worker' = None
    /\ _query_executing' = FALSE
    /\ table' = [kind |-> "cancelled", q |-> None]
    /\ DisconnectSilent
    /\ UNCHANGED <<pyodbc, cjob, ncon, _connection_failed, nq, _cancellable_query,
                   last_result, hist>>
    /\ UNCHANGED toolVars

\* The part of a cancel that concerns the query: cancel the CancellableQuery,
\* cancel the worker, stop the spinner, show "Query cancelled".
CancelRunningQuery ==
    /\ _query_executing
    /\ LET c == _cancellable_query
           w == _query_worker
           q1 == IF c # None
                 THEN [qjob EXCEPT ![c] = [CancellableCancel(@) EXCEPT
                                             !.cancelAt = CancelPoint(c)]]
                 ELSE qjob
       IN qjob' = IF w # None THEN [q1 EXCEPT ![w] = CancelQueryWorker(@)] ELSE q1
    /\ _query_worker' = None
    /\ _query_executing' = FALSE
    /\ table' = [kind |-> "cancelled", q |-> None]
    /\ UNCHANGED <<connVars, nq, _cancellable_query, last_result, hist>>
    /\ UNCHANGED toolVars

\* action_cancel_query.
action_cancel_query == CancelRunningQuery

\* action_cancel_operation (ctrl+c): its query branch, lines 260-276.
action_cancel_operation == CancelRunningQuery

----------------------------------------------------------------------------
\* SQLServerAdapter.execute_query (db/adapters/mssql.py)

\* Bounds: rows in a statement's result set, largest max_rows passed.
MaxResultRows == 6
MaxLimit == 5

\* The rows the driver's cursor yields for a statement, in order: Row objects
\* holding their cells.
DriverRow(i) == [type |-> "Row", cells |-> <<i>>]
ResultSet(t) == [i \in 1..t |-> DriverRow(i)]

\* tuple(row)
RowTuple(row) == row.cells

\* max_rows: None, or an integer >= 0.
NoLimit == [given |-> FALSE, n |-> 0]
Limit(n) == [given |-> TRUE, n |-> n]
MaxRowsArgs == {NoLimit} \cup {Limit(n) : n \in 0..MaxLimit}

\* cursor.fetchmany(size): the next rows, at most size of them.
fetchmany(rs, size) == SubSeq(rs, 1, IF size < Len(rs) THEN size ELSE Len(rs))

\* cursor.fetchall(): all the rows.
fetchall(rs) == rs

\* execute_query with a fault: fetchmany(max_rows), without the probe row.
execute_query_NoProbeRow(description, rs, max_rows) ==
    IF description
    THEN LET fetched == IF max_rows.given THEN fetchmany(rs, max_rows.n)
                        ELSE fetchall(rs)
             truncated == max_rows.given /\ Len(fetched) > max_rows.n
             rows == IF truncated THEN SubSeq(fetched, 1, max_rows.n) ELSE fetched
         IN [columns |-> <<"col">>,
             rows |-> [i \in 1..Len(rows) |-> RowTuple(rows[i])],
             truncated |-> truncated]
    ELSE [columns |-> <<>>, rows |-> <<>>, truncated |-> FALSE]

\* execute_query(conn, query, max_rows) for a statement whose cursor has the
\* result set rs (description: whether it has one at all).
execute_query(description, rs, max_rows) ==
    IF description
    THEN LET fetched == IF max_rows.given THEN fetchmany(rs, max_rows.n + 1)
                        ELSE fetchall(rs)
             truncated == max_rows.given /\ Len(fetched) > max_rows.n
             rows == IF truncated THEN SubSeq(fetched, 1, max_rows.n) ELSE fetched
         IN [columns |-> <<"col">>,
             rows |-> [i \in 1..Len(rows) |-> RowTuple(rows[i])],
             truncated |-> truncated]
    ELSE [columns |-> <<>>, rows |-> <<>>, truncated |-> FALSE]

NoResult == [columns |-> <<>>, rows |-> <<>>, truncated |-> FALSE]
FetchIdle ==
    [phase |-> "idle", description |-> FALSE, rs |-> <<>>, max_rows |-> NoLimit,
     result |-> NoResult]

\* A caller is about to call execute_query on a statement with t rows.
FetchInit ==
    \E d \in BOOLEAN, t \in 0..MaxResultRows, m \in MaxRowsArgs :
        fetch = [phase |-> "called", description |-> d,
                 rs |-> IF d THEN ResultSet(t) ELSE <<>>,
                 max_rows |-> m, result |-> NoResult]

\* The call returns.
ExecuteQueryReturns ==
    /\ fetch.phase = "called"
    /\ fetch' = [fetch EXCEPT !.phase = "returned",
                              !.result = execute_query(fetch.description, fetch.rs,
                                                       fetch.max_rows)]
    /\ UNCHANGED <<appVars, histVars, storeVars, cliVars, adapterVars, schema, keys>>

\* Nothing outside the app has acted: no adapter call, an empty history file,
\* no saved connection.
HistIdle == history = <<>> /\ clock = 0 /\ nsaves = 0
NoCommand == [cmd |-> "none", name |-> "", rc |-> 0]
StoreIdle == store = <<>> /\ connections = <<>> /\ mounted = FALSE /\ lastcmd = NoCommand
NoQueryCommand ==
    [args |-> [connection |-> "", source |-> "none",
               statement |-> [text |-> <<>>, effect |-> "noresult"], format |-> "table"],
     fault |-> "none", rc |-> 0, uncaught |-> FALSE, calls |-> <<>>, is_select |-> FALSE,
     columns |-> <<>>, rows |-> <<>>, printed |-> <<>>, footer |-> <<>>]
CliIdle == db = 0 /\ cli = NoQueryCommand /\ ninv = 0
ConnStrIdle == connstr = [phase |-> "idle", config |-> <<>>, builder |-> "", string |-> <<>>]
NormIdle == norm = [phase |-> "idle", given |-> <<>>, by |-> "", config |-> <<>>]
QuoteIdle == quoted = [phase |-> "idle", name |-> <<>>, text |-> <<>>]
AttemptIdle ==
    attempt = [phase |-> "idle", config |-> <<>>, env |-> <<>>, outcome |-> "none",
               shown |-> "none"]
TestIdle == test = [phase |-> "idle"]
ProbeIdle == AttemptIdle /\ TestIdle
AdapterIdle == ConnStrIdle /\ NormIdle /\ QuoteIdle /\ ProbeIdle
\* No key has been handled.
KeysIdle == keys = [phase |-> "idle"]
\* SSMSTUI.__init__: no session, an empty cache, no indexing.
SchemaIdle ==
    schema = [session |-> None, nconn |-> 0, connecting |-> FALSE, cache |-> {},
              _schema_indexing |-> FALSE, _schema_worker |-> None, jobs |-> <<>>]

ToolsIdle == fetch = FetchIdle /\ HistIdle /\ StoreIdle /\ CliIdle /\ AdapterIdle /\ SchemaIdle /\ KeysIdle

\* The app at rest, its SQL Server driver installed.
AppIdle == AppInit /\ pyodbc

InitAdapter == AppIdle /\ FetchInit /\ HistIdle /\ StoreIdle /\ CliIdle /\ AdapterIdle /\ SchemaIdle /\ KeysIdle

SpecAdapter == InitAdapter /\ [][ExecuteQueryReturns]_vars

Min(a, b) == IF a < b THEN a ELSE b

\* C12: for a statement producing T rows, execute_query with max_rows = N
\* (N >= 0) returns exactly the first min(T, N) rows and truncated is true
\* exactly when T > N; with max_rows = None it returns all T rows and
\* truncated is false.
C12_TruncationAtMaxRows ==
    (fetch.phase = "returned" /\ fetch.description) =>
        LET T == Len(fetch.rs)
            N == fetch.max_rows.n
            r == fetch.result
        IN IF fetch.max_rows.given
           THEN /\ r.rows = [i \in 1..Min(T, N) |-> fetch.rs[i].cells]
                /\ r.truncated <=> T > N
           ELSE /\ r.rows = [i \in 1..T |-> fetch.rs[i].cells]
                /\ ~r.truncated

\* A call with 0 < N < T returned, cut to N rows.
C12_Witness ==
    /\ fetch.phase = "returned"
    /\ fetch.max_rows.given
    /\ 0 < fetch.max_rows.n
    /\ fetch.max_rows.n < Len(fetch.rs)
    /\ fetch.result.truncated
    /\ Len(fetch.result.rows) = fetch.max_rows.n

----------------------------------------------------------------------------
\* Query history (config.py: save_query_to_history, load_query_history)

\* "Keep only last 100 entries per connection".
HistoryCap == 100

\* Bound: saves made in one run.
MaxSaves == 3

\* A query text: leading whitespace, the text between, trailing whitespace
\* (core identifies the text between; lead and trail count characters).
QueryText(lead, core, trail) == [lead |-> lead, core |-> core, trail |-> trail]

\* str.strip()
Strip(q) == QueryText(0, q.core, 0)

\* The texts saved: one that a filled history already holds (its oldest
\* entry), two that it does not; each bare and wrapped in whitespace.
QueryCores == {1, HistoryCap, HistoryCap + 1}
QueryTexts == {QueryText(pad, c, pad) : pad \in 0..1, c \in QueryCores}

HistoryEntry(c, q, ts) == [query |-> q, timestamp |-> ts, connection_name |-> c]

\* The file after n saves of distinct queries for connection "a", made at
\* times 1..n: most recent first.
HistoryAfter(n) == [i \in 1..n |-> HistoryEntry("a", QueryText(0, n + 1 - i, 0), n + 1 - i)]

\* list.sort(key=timestamp, reverse=True): descending, stable (entries with
\* equal timestamps keep their order).  place[i] is where es[i] ends up.
SortByTimestampDesc(es) ==
    LET n == Len(es)
        Ahead(i) == {j \in 1..n : \/ es[j].timestamp > es[i].timestamp
                                  \/ es[j].timestamp = es[i].timestamp /\ j < i}
        place == SubSeq([i \in 1..n |-> Cardinality(Ahead(i)) + 1], 1, n)
    IN [k \in 1..n |-> es[CHOOSE i \in 1..n : place[i] = k]]

Filter(es, Keep(_)) == SelectSeq(es, Keep)

\* Index of the first entry of connection c whose stripped query is q, or 0.
FirstMatch(es, c, q) ==
    LET hits == {i \in 1..Len(es) : es[i].connection_name = c /\ Strip(es[i].query) = q}
    IN IF hits = {} THEN 0 ELSE CHOOSE i \in hits : \A j \in hits : i <= j

\* SavedHistory with a fault: the stored queries are compared with the text
\* as passed, not stripped.
SavedHistory_ComparesUnstripped(all_entries, c, query, now) ==
    LET query_stripped == Strip(query)
        m == FirstMatch(all_entries, c, query)
        updated == IF m # 0 THEN [all_entries EXCEPT ![m].timestamp = now]
                   ELSE Append(all_entries, HistoryEntry(c, query_stripped, now))
        IsConn(e) == e.connection_name = c
        IsOther(e) == e.connection_name # c
        sorted == SortByTimestampDesc(Filter(updated, IsConn))
    IN Filter(updated, IsOther)
         \o SubSeq(sorted, 1, IF Len(sorted) < HistoryCap THEN Len(sorted) ELSE HistoryCap)

\* SavedHistory with a fault: the connection's entries are cut to the cap in
\* file order, without sorting them first.
SavedHistory_CutsUnsorted(all_entries, c, query, now) ==
    LET query_stripped == Strip(query)
        m == FirstMatch(all_entries, c, query_stripped)
        updated == IF m # 0 THEN [all_entries EXCEPT ![m].timestamp = now]
                   ELSE Append(all_entries, HistoryEntry(c, query_stripped, now))
        IsConn(e) == e.connection_name = c
        IsOther(e) == e.connection_name # c
        unsorted == Filter(updated, IsConn)
    IN Filter(updated, IsOther)
         \o SubSeq(unsorted, 1, IF Len(unsorted) < HistoryCap THEN Len(unsorted) ELSE HistoryCap)

\* SavedHistory with a fault: only the connection's own entries are written
\* back.
SavedHistory_WritesOwnEntries(all_entries, c, query, now) ==
    LET query_stripped == Strip(query)
        m == FirstMatch(all_entries, c, query_stripped)
        updated == IF m # 0 THEN [all_entries EXCEPT ![m].timestamp = now]
                   ELSE Append(all_entries, HistoryEntry(c, query_stripped, now))
        IsConn(e) == e.connection_name = c
        sorted == SortByTimestampDesc(Filter(updated, IsConn))
    IN SubSeq(sorted, 1, IF Len(sorted) < HistoryCap THEN Len(sorted) ELSE HistoryCap)

\* What save_query_to_history(c, query) writes, given the file's entries and
\* the time: the matching entry re-stamped or a new entry appended, then
\* the connection's entries sorted most recent first and cut to the cap.
SavedHistory(all_entries, c, query, now) ==
    LET query_stripped == Strip(query)
        m == FirstMatch(all_entries, c, query_stripped)
        updated == IF m # 0 THEN [all_entries EXCEPT ![m].timestamp = now]
                   ELSE Append(all_entries, HistoryEntry(c, query_stripped, now))
        IsConn(e) == e.connection_name = c
        IsOther(e) == e.connection_name # c
        sorted == SortByTimestampDesc(Filter(updated, IsConn))
    IN Filter(updated, IsOther)
         \o SubSeq(sorted, 1, IF Len(sorted) < HistoryCap THEN Len(sorted) ELSE HistoryCap)

\* save_query_to_history(connection_name, query); the clock has advanced
\* since the previous save.
save_query_to_history(c, query) ==
    /\ nsaves < MaxSaves
    /\ nsaves' = nsaves + 1
    /\ clock' = clock + 1
    /\ history' = SavedHistory(history, c, query, clock + 1)
    /\ UNCHANGED <<appVars, fetch, storeVars, cliVars, adapterVars, schema, keys>>

\* The history file: none yet, or one short of the cap for connection "a".
HistInit ==
    /\ \E n \in {0, HistoryCap - 1} : history = HistoryAfter(n) /\ clock = n
    /\ nsaves = 0

HistNext == \E c \in ConfigNames, query \in QueryTexts : save_query_to_history(c, query)

InitHistory == AppIdle /\ fetch = FetchIdle /\ HistInit /\ StoreIdle /\ CliIdle /\ AdapterIdle /\ SchemaIdle /\ KeysIdle

SpecHistory == InitHistory /\ [][HistNext]_vars

Range(es) == {es[i] : i \in 1..Len(es)}

\* The stored entries of connection c.
EntriesOf(es, c) == {e \in Range(es) : e.connection_name = c}

\* C13: no two stored entries share the connection name and the stripped
\* query; saving a (connection, stripped query) pair that is stored keeps the
\* number of entries and changes nothing but that entry's timestamp.
C13_OneEntryPerQuery ==
    /\ [](\A i, j \in 1..Len(history) :
             (i < j /\ history[i].connection_name = history[j].connection_name)
                 => Strip(history[i].query) # Strip(history[j].query))
    /\ [][\A c \in ConfigNames, query \in QueryTexts :
            save_query_to_history(c, query) =>
                \A e \in EntriesOf(history, c) :
                    Strip(e.query) = Strip(query) =>
                        /\ Len(history') = Len(history)
                        /\ Range(history') =
                             (Range(history) \ {e}) \cup {[e EXCEPT !.timestamp = clock']}]_vars

\* The oldest query of a filled history was saved again and nothing else: it
\* carries the time of the latest save and the file has as many entries as before.
C13_Witness ==
    /\ nsaves > 0
    /\ Len(history) = HistoryCap - 1
    /\ \E e \in EntriesOf(history, "a") : e.query.core = 1 /\ e.timestamp = clock
    /\ clock >= HistoryCap

\* C14: a connection never has more than 100 stored entries; saving a query
\* it does not hold when it holds 100 removes exactly its entry with the
\* oldest timestamp and keeps the entry just saved.
C14_CapEvictsOldest ==
    /\ [](\A c \in ConfigNames : Cardinality(EntriesOf(history, c)) <= HistoryCap)
    /\ [][\A c \in ConfigNames, query \in QueryTexts :
            (/\ save_query_to_history(c, query)
             /\ \A e \in EntriesOf(history, c) : Strip(e.query) # Strip(query)
             /\ Cardinality(EntriesOf(history, c)) = HistoryCap) =>
                LET oldest == CHOOSE e \in EntriesOf(history, c) :
                                \A d \in EntriesOf(history, c) : e.timestamp <= d.timestamp
                IN Range(history') =
                     (Range(history) \ {oldest}) \cup {HistoryEntry(c, Strip(query), clock')}]_vars

\* A 101st query was saved for connection "a": it is stored, the connection
\* holds 100 entries and the entry saved first is gone.
C14_Witness ==
    /\ Cardinality(EntriesOf(history, "a")) = HistoryCap
    /\ \E e \in EntriesOf(history, "a") : e.query.core = HistoryCap + 1 /\ e.timestamp = clock
    /\ \A e \in EntriesOf(history, "a") : e.timestamp > 1

\* C40: a save for one connection leaves the stored entries of every other
\* connection as they were, the same entries with the same timestamps in
\* the same order, also when the save evicts an entry at the cap.
C40_OtherConnectionsUntouched ==
    [][nsaves' = nsaves + 1 =>
         \E c \in ConfigNames :
             /\ \E e \in EntriesOf(history', c) : e.timestamp = clock'
             /\ \A d \in ConfigNames \ {c} :
                   LET IsD(e) == e.connection_name = d
                   IN SelectSeq(history', IsD) = SelectSeq(history, IsD)]_vars

\* Connection "b" holds an entry saved earlier, and a later save for "a",
\* at its cap, has evicted the oldest entry of "a".
C40_Witness ==
    /\ Cardinality(EntriesOf(history, "a")) = HistoryCap
    /\ \A e \in EntriesOf(history, "a") : e.timestamp > 1
    /\ \E e \in EntriesOf(history, "a") : e.timestamp = clock
    /\ \E e \in EntriesOf(history, "b") : e.timestamp < clock

----------------------------------------------------------------------------
\* Saved connections (commands.py: connection create/edit/delete; the app's
\* connection dialog and delete; config.py: load_connections, save_connections)

StoreNames == {"x", "y"}
Servers == {"s1", "s2"}
\* None, and the rows of the table after n committed inserts.
PyNone == "<None>"
FilePaths == {"f1"}
\* --db-type as given: "" for the option left out, "bogus" for a value that
\* is no DatabaseType.
GivenDbTypes == {"", "mssql", "sqlite", "bogus"}
FileBased == {"sqlite", "duckdb"}

\* ConnectionConfig(name=..., db_type=..., server=..., file_path=...)
StoredConfig(name, db_type, server, file_path) ==
    [name |-> name, server |-> server, db_type |-> db_type, file_path |-> file_path]

\* A SQL Server connection: db_type and file_path keep their defaults.
SavedConnection(name, server) == StoredConfig(name, "mssql", server, "")

Names(cs) == {cs[i].name : i \in 1..Len(cs)}

\* Index of the first connection called name, or 0.
IndexOf(cs, name) ==
    LET hits == {i \in 1..Len(cs) : cs[i].name = name}
    IN IF hits = {} THEN 0 ELSE CHOOSE i \in hits : \A j \in hits : i <= j

\* [c for c in cs if c.name != name]
WithoutName(cs, name) ==
    LET Other(c) == c.name # name IN Filter(cs, Other)

Ran(cmd, name, rc) == [cmd |-> cmd, name |-> name, rc |-> rc]

\* cmd_connection_create: `connection create --name NAME [--db-type T]
\* [--server SERVER] [--file-path PATH]` ("" stands for an option not given;
\* a server-based type without a server stands for every argument the
\* command refuses).
cmd_connection_create(name, given_type, server, file_path) ==
    /\ LET db_type == IF given_type = "" THEN "mssql" ELSE given_type
       IN IF \/ name \in Names(store)
             \/ db_type = "bogus"
             \/ db_type \in FileBased /\ file_path = ""
             \/ db_type \notin FileBased /\ server = ""
          THEN /\ lastcmd' = Ran("create", name, 1)
               /\ UNCHANGED store
          ELSE /\ store' = Append(store,
                                  IF db_type \in FileBased
                                  THEN StoredConfig(name, db_type, "", file_path)
                                  ELSE StoredConfig(name, db_type, server, ""))
               /\ lastcmd' = Ran("create", name, 0)
    /\ UNCHANGED <<appVars, fetch, histVars, connections, mounted, cliVars, adapterVars, schema, keys>>

\* An edit that saves what it has changed so far before it refuses the
\* auth type.
cmd_connection_edit_SavesBeforeCheck(connection_name, name, server, file_path, auth_type_valid) ==
    /\ LET idx == IndexOf(store, connection_name)
       IN IF \/ idx = 0
             \/ name # "" /\ name # connection_name /\ name \in Names(store)
          THEN /\ lastcmd' = Ran("edit", name, 1)
               /\ UNCHANGED store
          ELSE /\ store' = [store EXCEPT
                              ![idx] = StoredConfig(IF name # "" THEN name ELSE @.name,
                                                    @.db_type,
                                                    IF server # "" THEN server ELSE @.server,
                                                    IF file_path # PyNone /\ auth_type_valid
                                                    THEN file_path ELSE @.file_path)]
               /\ lastcmd' = Ran("edit", name, IF auth_type_valid THEN 0 ELSE 1)
    /\ UNCHANGED <<appVars, fetch, histVars, connections, mounted, cliVars, adapterVars, schema, keys>>

\* cmd_connection_edit: `connection edit CONNECTION_NAME [--name NAME]
\* [--server SERVER] [--file-path PATH] [--auth-type T]` ("" stands for an
\* option not given, PyNone for no --file-path).
cmd_connection_edit(connection_name, name, server, file_path, auth_type_valid) ==
    /\ LET idx == IndexOf(store, connection_name)
       IN IF \/ idx = 0
             \/ name # "" /\ name # connection_name /\ name \in Names(store)
             \/ ~auth_type_valid
          THEN /\ lastcmd' = Ran("edit", name, 1)
               /\ UNCHANGED store
          ELSE /\ store' = [store EXCEPT
                              ![idx] = StoredConfig(IF name # "" THEN name ELSE @.name,
                                                    @.db_type,
                                                    IF server # "" THEN server ELSE @.server,
                                                    IF file_path # PyNone THEN file_path
                                                    ELSE @.file_path)]
               /\ lastcmd' = Ran("edit", name, 0)
    /\ UNCHANGED <<appVars, fetch, histVars, connections, mounted, cliVars, adapterVars, schema, keys>>

\* A delete that keeps only what was stored before the connection.
cmd_connection_delete_DropsRest(connection_name) ==
    /\ LET idx == IndexOf(store, connection_name)
       IN IF idx = 0
          THEN /\ lastcmd' = Ran("delete", connection_name, 1)
               /\ UNCHANGED store
          ELSE /\ store' = SubSeq(store, 1, idx - 1)
               /\ lastcmd' = Ran("delete", connection_name, 0)
    /\ UNCHANGED <<appVars, fetch, histVars, connections, mounted, cliVars, adapterVars, schema, keys>>

\* cmd_connection_delete: connections.pop(conn_idx), save_connections.
cmd_connection_delete(connection_name) ==
    /\ LET idx == IndexOf(store, connection_name)
       IN IF idx = 0
          THEN /\ lastcmd' = Ran("delete", connection_name, 1)
               /\ UNCHANGED store
          ELSE /\ store' = SubSeq(store, 1, idx - 1) \o SubSeq(store, idx + 1, Len(store))
               /\ lastcmd' = Ran("delete", connection_name, 0)
    /\ UNCHANGED <<appVars, fetch, histVars, connections, mounted, cliVars, adapterVars, schema, keys>>

\* on_mount: the app starts and loads the saved connections.
on_mount ==
    /\ connections' = store
    /\ mounted' = TRUE
    /\ lastcmd' = Ran("mount", "", 0)
    /\ UNCHANGED <<appVars, fetch, histVars, store, cliVars, adapterVars, schema, keys>>

\* handle_connection_result(("save", config)): replace the connection of
\* that name in the app's list, save the list.
handle_connection_result(config) ==
    /\ connections' = Append(WithoutName(connections, config.name), config)
    /\ store' = Append(WithoutName(connections, config.name), config)

\* The connection dialog's action_save; editing is "" for a new connection,
\* else the name of the connection being edited.  _get_config refuses a name
\* held by another connection of the app's list (and a missing server).
action_save(editing, name, server) ==
    /\ mounted
    /\ editing # "" => editing \in Names(connections)
    /\ IF (name # editing /\ name \in Names(connections)) \/ server = ""
       THEN /\ lastcmd' = Ran("dialog", name, 1)
            /\ UNCHANGED <<store, connections>>
       ELSE /\ handle_connection_result(SavedConnection(name, server))
            /\ lastcmd' = Ran("dialog", name, 0)
    /\ UNCHANGED <<appVars, fetch, histVars, mounted, cliVars, adapterVars, schema, keys>>

\* _do_delete_connection(config), after the confirmation.
do_delete_connection(name) ==
    /\ mounted
    /\ name \in Names(connections)
    /\ connections' = WithoutName(connections, name)
    /\ store' = WithoutName(connections, name)
    /\ lastcmd' = Ran("app_delete", name, 0)
    /\ UNCHANGED <<appVars, fetch, histVars, mounted, cliVars, adapterVars, schema, keys>>

\* The arguments of the two commands.
CreateArgs ==
    [name : StoreNames, db_type : GivenDbTypes, server : Servers \cup {""},
     file_path : FilePaths \cup {""}]
EditArgs ==
    [connection_name : StoreNames, name : StoreNames \cup {""}, server : Servers \cup {""},
     file_path : FilePaths \cup {"", PyNone}, auth_type_valid : BOOLEAN]

ConnectionCreate ==
    \E a \in CreateArgs : cmd_connection_create(a.name, a.db_type, a.server, a.file_path)
ConnectionEdit ==
    \E a \in EditArgs :
        cmd_connection_edit(a.connection_name, a.name, a.server, a.file_path, a.auth_type_valid)
ConnectionDelete == \E cn \in StoreNames : cmd_connection_delete(cn)

\* The app and the command line side by side, the commands given the
\* options of a SQL Server connection.
StoreNext ==
    \/ \E n \in StoreNames, s \in Servers \cup {""} : cmd_connection_create(n, "", s, "")
    \/ \E cn \in StoreNames, n \in StoreNames \cup {""}, s \in Servers \cup {""},
          a \in BOOLEAN : cmd_connection_edit(cn, n, s, PyNone, a)
    \/ ConnectionDelete
    \/ on_mount
    \/ \E e \in StoreNames \cup {""}, n \in StoreNames, s \in Servers \cup {""} :
          action_save(e, n, s)
    \/ \E n \in StoreNames : do_delete_connection(n)

InitStore == AppIdle /\ fetch = FetchIdle /\ HistIdle /\ StoreIdle /\ CliIdle /\ AdapterIdle /\ SchemaIdle /\ KeysIdle

SpecStore == InitStore /\ [][StoreNext]_vars

\* C15: no two stored connections have the same name, and a create with a
\* name that a stored connection has, or a rename to a name that another
\* stored connection has, is rejected and stores nothing, from the command
\* line and from the app's dialog alike.
C15_DuplicateNamesRejected ==
    /\ [](\A i, j \in 1..Len(store) : i < j => store[i].name # store[j].name)
    /\ [][\A a \in CreateArgs :
            (cmd_connection_create(a.name, a.db_type, a.server, a.file_path)
             /\ a.name \in Names(store)) => store' = store]_vars
    /\ [][\A a \in EditArgs :
            (cmd_connection_edit(a.connection_name, a.name, a.server, a.file_path,
                                 a.auth_type_valid)
             /\ a.name # "" /\ a.name # a.connection_name /\ a.name \in Names(store))
                => store' = store]_vars
    /\ [][\A e \in StoreNames \cup {""}, n \in StoreNames, s \in Servers \cup {""} :
            (action_save(e, n, s) /\ n # e /\ n \in Names(store)) => store' = store]_vars

\* C34: saving the dialog's edit of a stored connection leaves the number of
\* stored connections as it was, also when the edit gives the connection a
\* new name (the app's list being the stored list when the dialog is saved).
C34_EditReplacesRecord ==
    [][\A e \in StoreNames, n \in StoreNames, s \in Servers :
         (action_save(e, n, s) /\ lastcmd'.rc = 0 /\ connections = store)
             => /\ Len(store') = Len(store)
                /\ (n # e => e \notin Names(store'))]_vars

\* The command line alone: connection create, edit and delete.
SpecStoreCli == InitStore /\ [][ConnectionCreate \/ ConnectionEdit \/ ConnectionDelete]_vars

\* C29: after any sequence of `connection create` and `connection edit`
\* commands, a stored sqlite or duckdb connection has a file_path and no
\* server, and a stored connection of a server-based type has a server and
\* no file_path.
C29_FieldsMatchDbType ==
    \A i \in 1..Len(store) :
        IF store[i].db_type \in FileBased
        THEN store[i].file_path # "" /\ store[i].server = ""
        ELSE store[i].server # "" /\ store[i].file_path = ""

C32_CreatesAndDeletesReflected ==
    /\ [][(lastcmd'.cmd = "create" /\ lastcmd'.rc = 0) =>
            /\ lastcmd'.name \in Names(store')
            /\ lastcmd'.name \notin Names(store)
            /\ SubSeq(store', 1, Len(store)) = store
            /\ Len(store') = Len(store) + 1]_vars
    /\ [][(lastcmd'.cmd = "delete" /\ lastcmd'.rc = 0) =>
            /\ lastcmd'.name \in Names(store)
            /\ lastcmd'.name \notin Names(store')
            /\ store' = WithoutName(store, lastcmd'.name)]_vars

\* The first of two stored connections was deleted: the second is left.
C32_Witness ==
    /\ lastcmd = Ran("delete", "x", 0)
    /\ Len(store) = 1 /\ store[1].name = "y" /\ store[1].db_type = "sqlite"

----------------------------------------------------------------------------
\* The command line's query command: cmd_query (src/sqlit/commands.py)
\* against the database of the stored connection "x", whose table starts
\* with BaseRows and grows by one row for every committed insert.

MaxInvocations == 2

\* A statement is a sequence of words and whitespace, with what the engine
\* does with it: "rows" (a query of the table), "modify" (an insert without
\* a result set), "modify_returning" (an insert that returns the new row),
\* "noresult" (nothing to fetch, nothing changed), "error" (the engine
\* rejects it).
Space == " "
Statements ==
    { [text |-> <<"SELECT", Space, "t">>, effect |-> "rows"],
      [text |-> <<Space, "select", Space, "t", Space>>, effect |-> "rows"],
      [text |-> <<"select", Space, "missing">>, effect |-> "error"],
      [text |-> <<"select*from", Space, "t">>, effect |-> "rows"],
      [text |-> <<"Insert", Space, "t">>, effect |-> "modify"],
      [text |-> <<"insert", Space, "missing">>, effect |-> "error"],
      [text |-> <<"with", Space, "insert">>, effect |-> "modify"],
      [text |-> <<"WITH", Space, "returning">>, effect |-> "modify_returning"],
      [text |-> <<"SHOW", Space, "t">>, effect |-> "rows"],
      [text |-> <<"Describe", Space, "t">>, effect |-> "rows"],
      [text |-> <<Space, Space, "EXPLAIN", Space, "t">>, effect |-> "rows"],
      [text |-> <<"pragma", Space, "on">>, effect |-> "noresult"],
      [text |-> <<Space>>, effect |-> "noresult"],
      [text |-> <<>>, effect |-> "noresult"] }

Modifies(effect) == effect \in {"modify", "modify_returning"}
HasResultSet(effect) == effect \in {"rows", "modify_returning"}

BaseRows == <<[type |-> "Row", cells |-> <<"a">>], [type |-> "Row", cells |-> <<PyNone>>]>>
TableRows(n) == BaseRows \o [i \in 1..n |-> [type |-> "Row", cells |-> <<"new">>]]

\* What the cursor holds after executing a statement on a table with n
\* committed inserts.
CursorRows(effect, n) ==
    IF effect = "rows" THEN TableRows(n)
    ELSE IF effect = "modify_returning" THEN <<[type |-> "Row", cells |-> <<"new">>]>>
    ELSE <<>>

\* str.strip(), str.upper() and str.split() on a statement.
strip(text) ==
    LET words == {i \in 1..Len(text) : text[i] # Space}
    IN IF words = {} THEN <<>>
       ELSE SubSeq(text, CHOOSE i \in words : \A j \in words : i <= j,
                         CHOOSE i \in words : \A j \in words : i >= j)

upper(text) ==
    LET Upper(w) ==
            CASE w \in {"select", "SELECT"} -> "SELECT"
              [] w \in {"with", "WITH"} -> "WITH"
              [] w = "Describe" -> "DESCRIBE"
              [] w = "pragma" -> "PRAGMA"
              [] w \in {"Insert", "insert"} -> "INSERT"
              [] w = "select*from" -> "SELECT*FROM"
              [] w = "t" -> "T"
              [] w = "missing" -> "MISSING"
              [] w = "returning" -> "RETURNING"
              [] w = "on" -> "ON"
              [] OTHER -> w
    IN [i \in 1..Len(text) |-> Upper(text[i])]

split(text) ==
    LET IsWord(w) == w # Space
    IN SelectSeq(text, IsWord)

RowKeywords == {"SELECT", "WITH", "SHOW", "DESCRIBE", "EXPLAIN", "PRAGMA"}

\* The classification with a fault: the first token is compared as typed.
is_select_query_AsTyped(query) ==
    LET query_type == IF strip(query) # <<>> THEN split(strip(query))[1] ELSE ""
    IN query_type \in RowKeywords

\* cmd_query's classification of the statement.
is_select_query(query) ==
    LET query_type == IF strip(query) # <<>> THEN split(upper(strip(query)))[1] ELSE ""
    IN query_type \in RowKeywords

\* CancellableQuery's classification: by the statement's first token against
\* the same keywords.
CancellableIsRowProducing(query) ==
    LET tokens == split(query)
    IN tokens # <<>> /\ upper(<<tokens[1]>>)[1] \in RowKeywords

\* execute_non_query with a fault: returns without committing.
execute_non_query_NoCommit(pending, committed, effect) ==
    [rowcount |-> IF Modifies(effect) THEN 1 ELSE -1,
     pending |-> pending + (IF Modifies(effect) THEN 1 ELSE 0),
     committed |-> committed]

\* execute_non_query on a connection with `pending` uncommitted inserts:
\* executes the statement, reads the row count, commits, returns.
execute_non_query(pending, committed, effect) ==
    [rowcount |-> IF Modifies(effect) THEN 1 ELSE -1,
     pending |-> 0,
     committed |-> committed + pending + (IF Modifies(effect) THEN 1 ELSE 0)]

\* execute_query of the adapter that cmd_query gets from get_adapter: the
\* columns and all the rows of the statement's result set, as a pair.
adapter_execute_query(description, rs) ==
    LET result == execute_query(description, rs, NoLimit)
    IN <<result.columns, result.rows>>

Formats == {"table", "csv", "json"}

\* The printing of a result with a fault: the last row is not printed.
PrintRows_DropsLast(format, columns, rows) ==
    [lines |-> [i \in 1..(Len(rows) - 1) |->
                    [k \in 1..Len(rows[i]) |->
                        IF rows[i][k] = PyNone THEN "NULL" ELSE rows[i][k]]],
     footer |-> <<Len(rows)>>]

\* What cmd_query prints for a result with columns: one line per row (the
\* column layout of the table format is left out), then the row count.
PrintRows(format, columns, rows) ==
    [lines |->
        IF format = "csv"
        THEN [i \in 1..Len(rows) |->
                [k \in 1..Len(rows[i]) |->
                    IF rows[i][k] # PyNone THEN rows[i][k] ELSE ""]]
        ELSE IF format = "json"
        THEN [i \in 1..Len(rows) |->
                [k \in 1..Min(Len(columns), Len(rows[i])) |->
                    <<columns[k], IF rows[i][k] # PyNone THEN rows[i][k] ELSE "null">>]]
        ELSE [i \in 1..Len(rows) |->
                [k \in 1..Len(rows[i]) |->
                    IF rows[i][k] # PyNone THEN rows[i][k] ELSE "NULL"]],
     footer |-> <<Len(rows)>>]

\* A failed command with a fault: it returns 0.
Failure_ReturnsZero(calls, is_select, committed) ==
    [rc |-> 0, uncaught |-> FALSE, calls |-> calls, is_select |-> is_select,
     columns |-> <<>>, rows |-> <<>>, printed |-> <<>>, footer |-> <<>>,
     committed |-> committed]

\* cmd_query's error exits: the message is printed and 1 returned; the
\* connection, when one was opened, goes with the process.
Failure(calls, is_select, committed) ==
    [rc |-> 1, uncaught |-> FALSE, calls |-> calls, is_select |-> is_select,
     columns |-> <<>>, rows |-> <<>>, printed |-> <<>>, footer |-> <<>>,
     committed |-> committed]

\* The sources of the statement: --query, or --file naming a file that is
\* readable, missing, unreadable, or not UTF-8 text; or neither.
ReadableSources == {"query", "file"}
FailingSources == {"none", "file_missing", "file_unreadable", "file_undecodable"}

\* Where the adapter or the driver raises, if anywhere.
Faults == {"none", "get_adapter", "connect", "execute", "close"}

\* cmd_query(args) on a database with `committed` inserts: what it calls,
\* prints and returns, and the inserts committed when the process ends.
RunQuery(args, fault, committed) ==
    LET query == args.statement.text
        effect == args.statement.effect
        is_select == is_select_query(query)
        raises == fault = "execute" \/ effect = "error"
        result == adapter_execute_query(HasResultSet(effect), CursorRows(effect, committed))
        columns == IF is_select THEN result[1] ELSE <<>>
        rows == IF is_select THEN result[2] ELSE <<>>
        pending == IF is_select /\ Modifies(effect) THEN 1 ELSE 0
        after == execute_non_query(pending, committed, effect)
        first == IF is_select THEN <<"connect", "execute_query">> ELSE <<"connect">>
        calls == IF columns # <<>> THEN first ELSE Append(first, "execute_non_query")
        out == PrintRows(args.format, columns, rows)
    IN  IF args.connection \notin Names(store) THEN Failure(<<>>, FALSE, committed)
        ELSE IF args.source = "none" \/ (args.source = "query" /\ query = <<>>)
        THEN Failure(<<>>, FALSE, committed)
        ELSE IF args.source \in {"file_missing", "file_unreadable"}
        THEN Failure(<<>>, FALSE, committed)
        ELSE IF args.source = "file_undecodable"
        THEN [Failure(<<>>, FALSE, committed) EXCEPT !.uncaught = TRUE]
        ELSE IF fault = "get_adapter" THEN Failure(<<>>, FALSE, committed)
        ELSE IF fault = "connect" THEN Failure(<<"connect">>, FALSE, committed)
        ELSE IF is_select /\ raises THEN Failure(first, is_select, committed)
        ELSE IF columns = <<>> /\ raises THEN Failure(calls, is_select, committed)
        ELSE [rc |-> IF fault = "close" THEN 1 ELSE 0,
              uncaught |-> FALSE,
              calls |-> Append(calls, "close"),
              is_select |-> is_select,
              columns |-> columns,
              rows |-> rows,
              printed |-> IF columns # <<>> THEN out.lines ELSE <<>>,
              footer |-> IF columns # <<>> THEN out.footer ELSE <<>>,
              committed |-> IF columns # <<>> THEN committed ELSE after.committed]

\* One run of `sqlit query`.
cmd_query(args, fault) ==
    /\ ninv < MaxInvocations
    /\ LET run == RunQuery(args, fault, db)
       IN /\ cli' = [args |-> args, fault |-> fault, rc |-> run.rc,
                     uncaught |-> run.uncaught, calls |-> run.calls,
                     is_select |-> run.is_select, columns |-> run.columns,
                     rows |-> run.rows, printed |-> run.printed,
                     footer |-> run.footer]
          /\ db' = run.committed
    /\ ninv' = ninv + 1
    /\ UNCHANGED <<appVars, fetch, histVars, storeVars, adapterVars, schema, keys>>

BlankStatement == [text |-> <<Space>>, effect |-> "noresult"]

QueryArgs ==
    {[connection |-> "x", source |-> s, statement |-> st, format |-> f] :
        s \in ReadableSources, st \in Statements, f \in Formats}
    \cup {[connection |-> "x", source |-> s, statement |-> BlankStatement, format |-> "table"] :
        s \in FailingSources}
    \cup {[connection |-> "y", source |-> "query",
           statement |-> [text |-> <<"SELECT", Space, "t">>, effect |-> "rows"],
           format |-> "table"]}

CliNext ==
    \E args \in QueryArgs, fault \in Faults :
        /\ fault # "none" => args.connection = "x" /\ args.source \in ReadableSources
        /\ cmd_query(args, fault)

\* The connection "x" is stored, as cmd_connection_create leaves it.
InitCli ==
    /\ AppIdle /\ fetch = FetchIdle /\ HistIdle
    /\ store = <<SavedConnection("x", "s1")>>
    /\ connections = <<>> /\ mounted = FALSE /\ lastcmd = NoCommand
    /\ CliIdle /\ AdapterIdle /\ SchemaIdle /\ KeysIdle

SpecCli == InitCli /\ [][CliNext]_vars

C33_StatementSubmittedOnce ==
    (ninv > 0 /\ cli.rc = 0) =>
        Cardinality({i \in 1..Len(cli.calls) :
                        cli.calls[i] \in {"execute_query", "execute_non_query"}}) = 1

----------------------------------------------------------------------------
\* The SQL Server connection string: SQLServerAdapter._build_connection_string
\* (src/sqlit/db/adapters/mssql.py) and ConnectionConfig.get_connection_string
\* (src/sqlit/config.py).  A string is the sequence of its keys, "=", values
\* and ";"; a value is put in as it is.

AuthTypes == {"windows", "sql", "ad_password", "ad_interactive", "ad_integrated"}

\* ConnectionConfig.__post_init__ on a SQL Server configuration.
post_init(config) ==
    IF config.db_type \in {"mssql", ""}
       /\ config.auth_type = "windows" /\ ~config.trusted_connection /\ config.username # ""
    THEN [config EXCEPT !.db_type = "mssql", !.auth_type = "sql"]
    ELSE IF config.db_type = "" THEN [config EXCEPT !.db_type = "mssql"]
    ELSE config

\* The configurations that can be constructed.
SqlServerConfigs ==
    {post_init([db_type |-> "mssql", auth_type |-> a, username |-> u, password |-> p, server |-> "s1",
                port |-> pt, database |-> d, trusted_connection |-> t,
                driver |-> "ODBC Driver 18 for SQL Server"]) :
        a \in AuthTypes \cup {"kerberos"}, u \in {"", "sa"}, p \in {"", "pw"},
        pt \in {"", "1433", "1444"}, d \in {"", "db"}, t \in BOOLEAN}

\* get_auth_type: the AuthType of the auth_type string, SQL_SERVER for one
\* that is not an AuthType.
get_auth_type(config) ==
    IF config.auth_type \in AuthTypes THEN config.auth_type ELSE "sql"

Field(key, value) == <<key, "=", value, ";">>

server_with_port(config) ==
    IF config.port # "" /\ config.port # "1433"
    THEN <<"SERVER", "=", config.server, ",", config.port, ";">>
    ELSE Field("SERVER", config.server)

\* The credentials with a fault: ad_interactive carries the password too.
Credentials_InteractivePassword(config, sql_keyword) ==
    LET auth == get_auth_type(config)
    IN IF auth = "windows" THEN Field("Trusted_Connection", "yes")
       ELSE IF auth = "sql"
       THEN sql_keyword \o Field("UID", config.username) \o Field("PWD", config.password)
       ELSE IF auth = "ad_integrated"
       THEN Field("Authentication", "ActiveDirectoryIntegrated")
       ELSE Field("Authentication", "ActiveDirectoryPassword")
                \o Field("UID", config.username) \o Field("PWD", config.password)

\* The part of the string after the base, by AuthType; sql_keyword is what
\* the builder puts before UID for SQL Server authentication.
Credentials(config, sql_keyword) ==
    LET auth == get_auth_type(config)
    IN IF auth = "windows" THEN Field("Trusted_Connection", "yes")
       ELSE IF auth = "sql"
       THEN sql_keyword \o Field("UID", config.username) \o Field("PWD", config.password)
       ELSE IF auth = "ad_password"
       THEN Field("Authentication", "ActiveDirectoryPassword")
                \o Field("UID", config.username) \o Field("PWD", config.password)
       ELSE IF auth = "ad_interactive"
       THEN Field("Authentication", "ActiveDirectoryInteractive")
                \o Field("UID", config.username)
       ELSE IF auth = "ad_integrated"
       THEN Field("Authentication", "ActiveDirectoryIntegrated")
       ELSE Field("Trusted_Connection", "yes")

\* SQLServerAdapter._build_connection_string(config).
build_connection_string(config) ==
    server_with_port(config)
        \o Field("DATABASE", IF config.database # "" THEN config.database ELSE "master")
        \o Field("TrustServerCertificate", "yes")
        \o Credentials(config, Field("Authentication", "SqlPassword"))

\* ConnectionConfig.get_connection_string().
get_connection_string(config) ==
    Field("DRIVER", config.driver)
        \o server_with_port(config)
        \o Field("DATABASE", IF config.database # "" THEN config.database ELSE "master")
        \o Field("TrustServerCertificate", "yes")
        \o Credentials(config, <<>>)

\* A configuration has been constructed.
ConnStrInit ==
    \E config \in SqlServerConfigs :
        connstr = [phase |-> "config", config |-> config, builder |-> "", string |-> <<>>]

\* The adapter builds the string for its connect.
BuildConnectionString ==
    /\ connstr.phase = "config"
    /\ connstr' = [connstr EXCEPT !.phase = "built", !.builder = "adapter",
                                  !.string = build_connection_string(connstr.config)]
    /\ UNCHANGED <<appVars, fetch, histVars, storeVars, cliVars, norm, quoted, attempt, test, schema, keys>>

\* The configuration builds its own string.
GetConnectionString ==
    /\ connstr.phase = "config"
    /\ connstr' = [connstr EXCEPT !.phase = "built", !.builder = "config",
                                  !.string = get_connection_string(connstr.config)]
    /\ UNCHANGED <<appVars, fetch, histVars, storeVars, cliVars, norm, quoted, attempt, test, schema, keys>>

ConnStrNext == BuildConnectionString \/ GetConnectionString

InitConnStr ==
    /\ AppIdle /\ fetch = FetchIdle /\ HistIdle /\ StoreIdle /\ CliIdle
    /\ ConnStrInit /\ NormIdle /\ QuoteIdle /\ ProbeIdle /\ SchemaIdle /\ KeysIdle

SpecConnStr == InitConnStr /\ [][ConnStrNext]_vars

\* C20: the connection string of a windows configuration has
\* Trusted_Connection=yes and neither UID nor PWD; of a sql or ad_password
\* one, UID with the username and PWD with the password; of an
\* ad_interactive one, UID with the username and no PWD; of an
\* ad_integrated one, neither UID nor PWD.
C20_CredentialsByAuthType ==
    LET s == connstr.string
        config == connstr.config
        Carries(key, value) ==
            \E i \in 1..Len(s) : i + 3 <= Len(s) /\ SubSeq(s, i, i + 3) = <<key, "=", value, ";">>
        HasKey(key) == \E i \in 1..Len(s) : s[i] = key
    IN connstr.phase = "built" =>
        /\ config.auth_type = "windows" =>
              Carries("Trusted_Connection", "yes") /\ ~HasKey("UID") /\ ~HasKey("PWD")
        /\ config.auth_type \in {"sql", "ad_password"} =>
              /\ Carries("UID", config.username) /\ Carries("PWD", config.password)
              /\ ~HasKey("Trusted_Connection")
        /\ config.auth_type = "ad_interactive" =>
              Carries("UID", config.username) /\ ~HasKey("PWD")
        /\ config.auth_type = "ad_integrated" => ~HasKey("UID") /\ ~HasKey("PWD")

C20_Witness ==
    /\ connstr.phase = "built" /\ connstr.builder = "adapter"
    /\ connstr.config.auth_type = "ad_interactive" /\ connstr.config.username = "sa"
    /\ connstr.config.password = "pw"

----------------------------------------------------------------------------
\* Normalisation of the authentication options: ConnectionConfig's
\* construction (src/sqlit/config.py) and SQLServerAdapter.normalize_config
\* (src/sqlit/db/adapters/mssql.py).  trusted_connection is given as
\* "true" or "false", or is "unset".

DbTypes == {"mssql", "", "sqlite", "postgresql"}

GivenOptions ==
    [db_type : DbTypes, auth_type : AuthTypes \cup {"kerberos"}, username : {"", "sa"},
     trusted_connection : {"unset", "true", "false"}]

\* ConnectionConfig(**given): the dataclass defaults, then __post_init__.
ConnectionConfig(given) ==
    post_init([db_type |-> given.db_type, auth_type |-> given.auth_type,
               username |-> given.username,
               trusted_connection |-> (given.trusted_connection = "true")])

\* SQLServerAdapter.normalize_config(config) on the options as given.
normalize_config(given) ==
    LET auth_type == given.auth_type
        trusted_connection ==
            IF given.trusted_connection = "unset" THEN auth_type = "windows"
            ELSE given.trusted_connection = "true"
    IN IF auth_type = "windows" /\ ~trusted_connection /\ given.username # ""
       THEN [db_type |-> given.db_type, auth_type |-> "sql", username |-> given.username,
             trusted_connection |-> FALSE]
       ELSE [db_type |-> given.db_type, auth_type |-> auth_type,
             username |-> given.username, trusted_connection |-> trusted_connection]

\* The options of a connection are at hand.
NormInit ==
    \E given \in GivenOptions :
        norm = [phase |-> "given", given |-> given, by |-> "", config |-> <<>>]

\* The configuration is constructed from the options.
ConstructConfig ==
    /\ norm.phase = "given"
    /\ norm' = [norm EXCEPT !.phase = "done", !.by = "ConnectionConfig",
                            !.config = ConnectionConfig(norm.given)]
    /\ UNCHANGED <<appVars, fetch, histVars, storeVars, cliVars, connstr, quoted, attempt, test, schema, keys>>

\* The SQL Server adapter normalises the options of one of its connections.
NormalizeConfig ==
    /\ norm.phase = "given"
    /\ norm.given.db_type = "mssql"
    /\ norm' = [norm EXCEPT !.phase = "done", !.by = "normalize_config",
                            !.config = normalize_config(norm.given)]
    /\ UNCHANGED <<appVars, fetch, histVars, storeVars, cliVars, connstr, quoted, attempt, test, schema, keys>>

NormNext == ConstructConfig \/ NormalizeConfig

InitNorm ==
    /\ AppIdle /\ fetch = FetchIdle /\ HistIdle /\ StoreIdle /\ CliIdle /\ ConnStrIdle
    /\ NormInit /\ QuoteIdle /\ ProbeIdle /\ SchemaIdle /\ KeysIdle

SpecNorm == InitNorm /\ [][NormNext]_vars

\* C21: a SQL Server configuration given auth_type windows, a username and
\* trusted_connection false or not given comes out with auth_type sql; any
\* other configuration, and any of another db_type, comes out with the
\* auth_type it was given.
C21_WindowsWithUsernameBecomesSql ==
    norm.phase = "done" =>
        IF /\ norm.config.db_type = "mssql"
           /\ norm.given.auth_type = "windows"
           /\ norm.given.username # ""
           /\ norm.given.trusted_connection \in {"false", "unset"}
        THEN norm.config.auth_type = "sql"
        ELSE norm.config.auth_type = norm.given.auth_type

----------------------------------------------------------------------------
\* SQLServerAdapter.quote_identifier (src/sqlit/db/adapters/mssql.py).  An
\* identifier is a sequence of characters: a letter, "[" and "]".

MaxNameLen == 4

IdentChars == {"a", "[", "]"}

RECURSIVE NamesUpTo(_)
NamesUpTo(n) ==
    IF n = 0 THEN {<<>>}
    ELSE NamesUpTo(n - 1)
            \cup {Append(s, c) : s \in {t \in NamesUpTo(n - 1) : Len(t) = n - 1},
                                 c \in IdentChars}

\* name.replace("]", "]]")
RECURSIVE replace_bracket(_)
replace_bracket(name) ==
    IF name = <<>> THEN <<>>
    ELSE (IF Head(name) = "]" THEN <<"]", "]">> ELSE <<Head(name)>>)
            \o replace_bracket(Tail(name))

\* The quoting with a fault: the name is only wrapped.
quote_identifier_NoEscape(name) == <<"[">> \o name \o <<"]">>

quote_identifier(name) == <<"[">> \o replace_bracket(name) \o <<"]">>

\* SQL Server's reading of a bracketed identifier: after "[", "]]" is one
\* "]" of the name and a single "]" ends it; nothing may follow the end.
RECURSIVE ReadBracketed(_)
ReadBracketed(s) ==
    IF s = <<>> THEN [ok |-> FALSE, name |-> <<>>]
    ELSE IF Head(s) # "]"
    THEN LET rest == ReadBracketed(Tail(s))
         IN [ok |-> rest.ok, name |-> <<Head(s)>> \o rest.name]
    ELSE IF Len(s) >= 2 /\ s[2] = "]"
    THEN LET rest == ReadBracketed(Tail(Tail(s)))
         IN [ok |-> rest.ok, name |-> <<"]">> \o rest.name]
    ELSE [ok |-> Len(s) = 1, name |-> <<>>]

\* An identifier is at hand; the adapter quotes it.
QuoteIdentifier ==
    /\ quoted.phase = "given"
    /\ quoted' = [quoted EXCEPT !.phase = "quoted", !.text = quote_identifier(quoted.name)]
    /\ UNCHANGED <<appVars, fetch, histVars, storeVars, cliVars, connstr, norm, attempt, test, schema, keys>>

InitQuote ==
    /\ AppIdle /\ fetch = FetchIdle /\ HistIdle /\ StoreIdle /\ CliIdle
    /\ ConnStrIdle /\ NormIdle /\ ProbeIdle /\ SchemaIdle /\ KeysIdle
    /\ \E name \in NamesUpTo(MaxNameLen) :
          quoted = [phase |-> "given", name |-> name, text |-> <<>>]

SpecQuote == InitQuote /\ [][QuoteIdentifier]_vars

\* C22: the quoted form of an identifier, read back by the bracket rule,
\* is a complete bracketed identifier and its name is the identifier,
\* wherever and however often "]" occurs in it.
C22_QuoteRoundTrip ==
    quoted.phase = "quoted" =>
        /\ Len(quoted.text) >= 2 /\ Head(quoted.text) = "["
        /\ ReadBracketed(Tail(quoted.text)) = [ok |-> TRUE, name |-> quoted.name]

C22_Witness ==
    /\ quoted.phase = "quoted"
    /\ quoted.name = <<"]", "a", "]", "]">>
    /\ Len(quoted.text) = 9

----------------------------------------------------------------------------
\* A connect attempt: SQLServerAdapter.connect (src/sqlit/db/adapters/mssql.py)
\* called for the connect worker of connect_to_server, and on_error
\* (src/sqlit/ui/mixins/connection.py) showing what was raised.

\* What the attempt meets: whether mssql_python can be imported, and
\* whether the server accepts the connection.
Environments == [driver : BOOLEAN, server : {"accepts", "refuses", "unreachable"}]

\* import_driver_module(...): the module, or MissingDriverError.
import_driver_module(env) ==
    IF env.driver THEN "mssql_python" ELSE "MissingDriverError"

\* mssql_python.connect(conn_str): a connection, or the driver's own error.
driver_connect(env) ==
    IF env.server = "accepts" THEN "connection"
    ELSE IF env.server = "refuses" THEN "mssql_python.OperationalError"
    ELSE "mssql_python.InterfaceError"

\* SQLServerAdapter.connect(config): what it returns or lets escape.
connect(config, env) ==
    IF import_driver_module(env) = "MissingDriverError" THEN "MissingDriverError"
    ELSE LET conn_str == build_connection_string(config)
         IN driver_connect(env)

\* A valid configuration is about to be connected.
AttemptInit ==
    \E config \in SqlServerConfigs, env \in Environments :
        attempt = [phase |-> "ready", config |-> config, env |-> env,
                   outcome |-> "none", shown |-> "none"]

\* work() in the connect worker: the adapter's connect returns or raises.
AdapterConnect ==
    /\ attempt.phase = "ready"
    /\ LET outcome == connect(attempt.config, attempt.env)
       IN attempt' = [attempt EXCEPT
                        !.phase = IF outcome = "connection" THEN "connected" ELSE "raised",
                        !.outcome = outcome]
    /\ UNCHANGED <<appVars, fetch, histVars, storeVars, cliVars, connstr, norm, quoted, test, schema, keys>>

\* on_error(error) on the interactive thread: the error screen is pushed.
ShowConnectError ==
    /\ attempt.phase = "raised"
    /\ attempt' = [attempt EXCEPT !.phase = "shown", !.shown = "ErrorScreen"]
    /\ UNCHANGED <<appVars, fetch, histVars, storeVars, cliVars, connstr, norm, quoted, test, schema, keys>>

InitConnect ==
    /\ AppIdle /\ fetch = FetchIdle /\ HistIdle /\ StoreIdle /\ CliIdle
    /\ ConnStrIdle /\ NormIdle /\ QuoteIdle /\ TestIdle /\ SchemaIdle /\ KeysIdle
    /\ AttemptInit

SpecConnect == InitConnect /\ [][AdapterConnect \/ ShowConnectError]_vars

\* C23: connect returns a connection or raises MissingDriverError or
\* ConnectionError; nothing else escapes it.
C23_OnlyTwoErrorKinds ==
    attempt.phase \in {"connected", "raised", "shown"} =>
        attempt.outcome \in {"connection", "MissingDriverError", "ConnectionError"}

\* C24: a failed connect is shown on the install screen exactly when the
\* error is a MissingDriverError, and on the error screen otherwise.
C24_InstallHintIffMissingDriver ==
    attempt.phase = "shown" =>
        /\ attempt.shown = "PackageSetupScreen" <=> attempt.outcome = "MissingDriverError"
        /\ attempt.shown = "ErrorScreen" <=> attempt.outcome # "MissingDriverError"

----------------------------------------------------------------------------
\* The schema cache of the app: created in SSMSTUI.__init__ (src/sqlit/app.py),
\* loaded by the indexing job that on_success starts with _load_schema_cache,
\* and the handlers that end a session (src/sqlit/ui/mixins/connection.py) or
\* cancel the job (action_cancel_operation, src/sqlit/ui/mixins/query.py).
\* Sessions and indexing jobs are numbered in the order they are made.

MaxConnects == 3

SchemaKinds == {"tables", "views", "columns", "procedures"}

\* What an indexing job has read from its session's connection.
LoadedBy(j) == {[kind |-> k, session |-> schema.jobs[j].session, job |-> j] : k \in SchemaKinds}

\* The delivery rule with a fault: every job that completes is applied.
Applies_AnyJob(j) == TRUE

\* A completed job's results are applied only if no newer job has
\* superseded it and it was not cancelled.
Applies(j) == schema.jobs[j].st = "running"

\* connect_to_server(config): an existing session is closed and its fields
\* cleared; the connect worker starts.
SchemaConnectRequest ==
    /\ schema.nconn < MaxConnects
    /\ ~schema.connecting
    /\ schema' = [schema EXCEPT !.session = None, !.connecting = TRUE]
    /\ UNCHANGED <<appVars, fetch, histVars, storeVars, cliVars, adapterVars, keys>>

\* on_success(session): the session is installed; _load_schema_cache puts
\* an empty cache in place and starts an indexing job, which supersedes a
\* running one.
SchemaOnSuccess ==
    /\ schema.connecting
    /\ LET s == schema.nconn + 1
           superseded == [j \in 1..Len(schema.jobs) |->
                            IF schema.jobs[j].st = "running"
                            THEN [schema.jobs[j] EXCEPT !.st = "superseded"]
                            ELSE schema.jobs[j]]
       IN schema' = [schema EXCEPT
                        !.session = s, !.nconn = s, !.connecting = FALSE,
                        !.cache = {},
                        !._schema_indexing = TRUE,
                        !._schema_worker = Len(schema.jobs) + 1,
                        !.jobs = Append(superseded, [st |-> "running", session |-> s])]
    /\ UNCHANGED <<appVars, fetch, histVars, storeVars, cliVars, adapterVars, keys>>

\* action_disconnect: _disconnect_silent closes the session and clears the
\* session fields.
SchemaDisconnect ==
    /\ schema.session # None
    /\ schema' = [schema EXCEPT !.session = None]
    /\ UNCHANGED <<appVars, fetch, histVars, storeVars, cliVars, adapterVars, keys>>

\* action_cancel_operation while indexing: the worker is cancelled.
SchemaCancel ==
    /\ schema._schema_indexing
    /\ schema' = [schema EXCEPT
                    !.jobs = IF schema._schema_worker # None
                             THEN [@ EXCEPT ![schema._schema_worker].st = "cancelled"]
                             ELSE @,
                    !._schema_worker = None,
                    !._schema_indexing = FALSE]
    /\ UNCHANGED <<appVars, fetch, histVars, storeVars, cliVars, adapterVars, keys>>

\* An indexing job completes: its results go into the cache or are dropped.
IndexingCompletes(j) ==
    /\ schema.jobs[j].st \in {"running", "superseded", "cancelled"}
    /\ IF Applies(j)
       THEN schema' = [schema EXCEPT !.cache = @ \cup LoadedBy(j),
                                     !.jobs[j].st = "applied",
                                     !._schema_indexing = FALSE,
                                     !._schema_worker = None]
       ELSE schema' = [schema EXCEPT !.jobs[j].st = "discarded"]
    /\ UNCHANGED <<appVars, fetch, histVars, storeVars, cliVars, adapterVars, keys>>

SchemaNext ==
    \/ SchemaConnectRequest
    \/ SchemaOnSuccess
    \/ SchemaDisconnect
    \/ SchemaCancel
    \/ \E j \in 1..Len(schema.jobs) : IndexingCompletes(j)

InitSchema ==
    /\ AppIdle /\ fetch = FetchIdle /\ HistIdle /\ StoreIdle /\ CliIdle /\ AdapterIdle
    /\ SchemaIdle /\ KeysIdle

SpecSchema == InitSchema /\ [][SchemaNext]_vars

\* C25: the cache holds nothing that was loaded under a session that has
\* been closed: it is empty after a disconnect and when a new session is
\* installed.
C25_CacheEmptyAfterDisconnect ==
    /\ [](\A e \in schema.cache : e.session = schema.session)
    /\ [][SchemaOnSuccess => schema'.cache = {}]_vars

\* C26: whatever enters the cache comes from the indexing job started
\* last; a job that completes after it was superseded adds nothing.
C26_OnlyLatestJobApplies ==
    /\ [][\A e \in schema'.cache \ schema.cache : e.job = Len(schema.jobs)]_vars
    /\ [][\A j \in 1..Len(schema.jobs) :
            (schema.jobs[j].st = "superseded" /\ schema'.jobs[j].st # "superseded")
                => (schema'.jobs[j].st = "discarded" /\ schema'.cache = schema.cache)]_vars

C26_Witness ==
    /\ Len(schema.jobs) = 2
    /\ schema.jobs[1].st = "discarded"
    /\ schema.jobs[2].st = "applied"
    /\ schema.cache = LoadedBy(2)

----------------------------------------------------------------------------
\* The dialog's connection test: ConnectionScreen.action_test_connection
\* (src/sqlit/ui/screens/connection.py).

\* The configurations the form can give (None: the form is not valid).
FormConfigs ==
    [name : {"x"}, db_type : {"mssql"}, server : Servers, port : {"", "1433", "1444"},
     ssh_enabled : BOOLEAN]

\* What the test meets: whether the SSH tunnel can be opened, and the call
\* that raises, if any.
TestFaults == {"none", "get_adapter", "driver_missing", "connect", "close"}

\* The local end of an open tunnel.
LocalEndpoint == [host |-> "127.0.0.1", port |-> 50022]

\* str(port)
str(port) == IF port = 50022 THEN "50022" ELSE "0"

\* create_ssh_tunnel(config): (tunnel, host, port) with the tunnel's local
\* end when SSH is enabled, (None, server, port) when it is not; raises,
\* leaving no tunnel, when the tunnel cannot be opened.
create_ssh_tunnel(config, ssh_opens) ==
    IF ~config.ssh_enabled
    THEN [raised |-> FALSE, tunnel |-> "none", host |-> config.server, port |-> 0]
    ELSE IF ssh_opens
    THEN [raised |-> FALSE, tunnel |-> "open", host |-> LocalEndpoint.host,
          port |-> LocalEndpoint.port]
    ELSE [raised |-> TRUE, tunnel |-> "none", host |-> "", port |-> 0]

\* The connection is made with the form's own server and port.
replace_Unchanged(config, host, port) == config

\* dataclasses.replace(config, server=host, port=port): a new configuration.
replace(config, host, port) == [config EXCEPT !.server = host, !.port = port]

\* The finally clause with a fault: the tunnel is left as it is.
finally_stop_Skipped(run) == run

\* finally: if tunnel: tunnel.stop()
finally_stop(run) ==
    IF run.tunnel # "none"
    THEN [run EXCEPT !.tunnel = "stopped", !.stops = @ + 1]
    ELSE run

\* The body of the test on a valid form: the try block and its handlers.
test_body(config, ssh_opens, fault) ==
    LET made == create_ssh_tunnel(config, ssh_opens)
        connect_config == IF made.tunnel # "none"
                          THEN replace(config, made.host, str(made.port))
                          ELSE config
        start == [config |-> config, received |-> <<>>, tunnel |-> made.tunnel,
                  stops |-> 0, status |-> "failed"]
    IN IF made.raised THEN start
       ELSE IF fault = "get_adapter" THEN start
       ELSE IF fault = "driver_missing"
       THEN [start EXCEPT !.received = <<connect_config>>, !.status = "missing package"]
       ELSE IF fault \in {"connect", "close"}
       THEN [start EXCEPT !.received = <<connect_config>>]
       ELSE [start EXCEPT !.received = <<connect_config>>,
                          !.tunnel = IF @ # "none" THEN "stopped" ELSE @,
                          !.stops = IF made.tunnel # "none" THEN 1 ELSE 0,
                          !.status = "ok"]

\* The dialog is open with its form filled in.
TestInit ==
    \E config \in FormConfigs, valid \in BOOLEAN, ssh_opens \in BOOLEAN, fault \in TestFaults :
        test = [phase |-> "form", form |-> config, valid |-> valid,
                ssh_opens |-> ssh_opens, fault |-> fault]

\* action_test_connection, from the key press to its return.
action_test_connection ==
    /\ test.phase = "form"
    /\ test' = IF ~test.valid
               THEN [phase |-> "returned", form |-> test.form, valid |-> FALSE,
                     run |-> [config |-> test.form, received |-> <<>>, tunnel |-> "none",
                              stops |-> 0, status |-> "invalid"]]
               ELSE [phase |-> "returned", form |-> test.form, valid |-> TRUE,
                     run |-> finally_stop(test_body(test.form, test.ssh_opens, test.fault))]
    /\ UNCHANGED <<appVars, fetch, histVars, storeVars, cliVars, connstr, norm, quoted,
                   attempt, schema, keys>>

InitTest ==
    /\ AppIdle /\ fetch = FetchIdle /\ HistIdle /\ StoreIdle /\ CliIdle
    /\ ConnStrIdle /\ NormIdle /\ QuoteIdle /\ AttemptIdle /\ SchemaIdle /\ KeysIdle
    /\ TestInit

SpecTest == InitTest /\ [][action_test_connection]_vars

\* C27: when the test returns, no tunnel it opened is still open, whether
\* the test succeeded, the driver was missing, connect raised or anything
\* else failed.
C27_TunnelStoppedOnReturn ==
    test.phase = "returned" => test.run.tunnel # "open"

C27_Witness ==
    /\ test.phase = "returned" /\ test.run.status = "failed"
    /\ test.run.received # <<>> /\ test.run.tunnel = "stopped" /\ test.run.stops = 1

\* C28: with a tunnel opened, adapter.connect gets the tunnel's local host
\* and port and the form's configuration is as it was built; without one,
\* adapter.connect gets the form's configuration.
C28_ConnectThroughTunnel ==
    (test.phase = "returned" /\ test.run.received # <<>>) =>
        /\ test.run.config = test.form
        /\ IF test.run.tunnel # "none"
           THEN /\ test.run.received[1].server = "127.0.0.1"
                /\ test.run.received[1].port = "50022"
                /\ \A f \in {"name", "db_type", "ssh_enabled"} :
                      test.run.received[1][f] = test.form[f]
           ELSE test.run.received[1] = test.form

C28_Witness ==
    /\ test.phase = "returned" /\ test.run.status = "ok"
    /\ test.run.tunnel = "stopped" /\ test.form.port = "1444"
    /\ test.run.received[1].port = "50022"

----------------------------------------------------------------------------
\* Key handling: SSMSTUI.check_action (src/sqlit/app.py) and the actions
\* that change what it looks at (ui/mixins/ui_navigation.py, query.py).

\* The bound actions followed here; leader_help stands for the leader_*
\* combos.
KeyActions ==
    {"leader_key", "leader_help", "focus_explorer", "focus_query", "focus_results",
     "enter_insert_mode", "exit_insert_mode", "execute_query", "execute_query_insert",
     "cancel_operation"}

\* check_action(action, parameters) in the state k: whether the action is
\* permitted, and _leader_pending afterwards (a leader combo clears it).
check_action(action, k) ==
    LET in_insert_mode == k.vim_mode = "INSERT"
        tree_focused == k.focus = "tree"
        query_focused == k.focus = "query"
        results_focused == k.focus = "results"
        Answer(b) == [allowed |-> b, _leader_pending |-> k._leader_pending]
    IN IF action = "leader_help"
       THEN [allowed |-> k._leader_pending, _leader_pending |-> FALSE]
       ELSE IF k._leader_pending /\ action # "leader_key" THEN Answer(FALSE)
       ELSE IF action = "enter_insert_mode" THEN Answer(query_focused /\ ~in_insert_mode)
       ELSE IF action = "exit_insert_mode" THEN Answer(in_insert_mode)
       ELSE IF in_insert_mode
       THEN Answer(action \in {"quit", "exit_insert_mode", "execute_query_insert"})
       ELSE IF action = "execute_query" THEN Answer(query_focused \/ results_focused)
       ELSE IF action = "execute_query_insert" THEN Answer(query_focused)
       ELSE IF action = "focus_explorer"
       THEN Answer(~(tree_focused /\ k.node_type = "connection"))
       ELSE Answer(TRUE)

\* What the permitted action does to the vim mode, the focus, the leader
\* key and the running query.
Handle(action, k) ==
    CASE action = "leader_key" ->
            IF k.vim_mode = "INSERT" THEN k ELSE [k EXCEPT !._leader_pending = TRUE]
      [] action = "focus_explorer" -> [k EXCEPT !.focus = "tree"]
      [] action = "focus_query" -> [k EXCEPT !.vim_mode = "NORMAL", !.focus = "query"]
      [] action = "focus_results" -> [k EXCEPT !.focus = "results"]
      [] action = "enter_insert_mode" ->
            IF k.focus = "query" /\ k.vim_mode = "NORMAL"
            THEN [k EXCEPT !.vim_mode = "INSERT"] ELSE k
      [] action = "exit_insert_mode" ->
            IF k.vim_mode = "INSERT" THEN [k EXCEPT !.vim_mode = "NORMAL"] ELSE k
      [] action = "execute_query" ->
            IF k.connected
            THEN [k EXCEPT !._query_executing = TRUE, !.keep_insert_mode = FALSE] ELSE k
      [] action = "execute_query_insert" ->
            IF k.connected
            THEN [k EXCEPT !._query_executing = TRUE, !.keep_insert_mode = TRUE] ELSE k
      [] action = "cancel_operation" -> [k EXCEPT !._query_executing = FALSE]
      [] OTHER -> k

\* The app is mounted, the tree focused on a node, connected or not.
KeysInit ==
    \E node_type \in {"connection", "table"}, connected \in BOOLEAN :
        keys = [phase |-> "running", vim_mode |-> "NORMAL", focus |-> "tree",
                node_type |-> node_type, connected |-> connected,
                _leader_pending |-> FALSE, _query_executing |-> FALSE,
                keep_insert_mode |-> FALSE,
                pressed |-> [action |-> "none", allowed |-> FALSE]]

KeysFrame ==
    UNCHANGED <<appVars, fetch, histVars, storeVars, cliVars, adapterVars, schema>>

\* A key bound to the action is pressed: check_action, then the action.
Press(action) ==
    /\ keys.phase = "running"
    /\ LET answer == check_action(action, keys)
           checked == [keys EXCEPT !._leader_pending = answer._leader_pending,
                                   !.pressed = [action |-> action,
                                                allowed |-> answer.allowed]]
       IN keys' = IF answer.allowed THEN Handle(action, checked) ELSE checked
    /\ KeysFrame

\* show_menu, 200 ms after the leader key: the menu opens and is closed.
LeaderTimeout ==
    /\ keys.phase = "running" /\ keys._leader_pending
    /\ keys' = [keys EXCEPT !._leader_pending = FALSE]
    /\ KeysFrame

\* The query ends: the spinner stops, INSERT mode is restored after a
\* result when the query was started with keep_insert_mode.
QueryEnds ==
    /\ keys.phase = "running" /\ keys._query_executing
    /\ \E success \in BOOLEAN :
          keys' = IF success /\ keys.keep_insert_mode
                  THEN [keys EXCEPT !._query_executing = FALSE, !.vim_mode = "INSERT",
                                    !.focus = "query"]
                  ELSE [keys EXCEPT !._query_executing = FALSE]
    /\ KeysFrame

KeysNext ==
    \/ \E action \in KeyActions : Press(action)
    \/ LeaderTimeout
    \/ QueryEnds

InitKeys ==
    /\ AppIdle /\ fetch = FetchIdle /\ HistIdle /\ StoreIdle /\ CliIdle /\ AdapterIdle
    /\ SchemaIdle /\ KeysInit

SpecKeys == InitKeys /\ [][KeysNext]_vars

\* C37: whenever a query is executing, check_action permits
\* cancel_operation, in NORMAL and in INSERT mode, with any pane focused,
\* with or without a leader key pending.
C37_CancelAlwaysPermitted ==
    (keys.phase = "running" /\ keys._query_executing) =>
        check_action("cancel_operation", keys).allowed

----------------------------------------------------------------------------
\* The running app and its saved connections: connecting, disconnecting and
\* deleting from the explorer tree (ui/mixins/connection.py).

\* action_delete_connection with the tree cursor on the connection called
\* name: refused for the connected one, else confirmed and deleted.
action_delete_connection(name) ==
    /\ current_config # name
    /\ do_delete_connection(name)

\* The app is mounted with the connections of Configs saved and loaded.
InitAppStore ==
    /\ AppIdle /\ fetch = FetchIdle /\ HistIdle /\ CliIdle /\ AdapterIdle
    /\ SchemaIdle /\ KeysIdle
    /\ store = <<SavedConnection("a", "s1"), SavedConnection("b", "s2")>>
    /\ connections = store
    /\ mounted = TRUE
    /\ lastcmd = Ran("mount", "", 0)

AppStoreNext ==
    \/ \E cfg \in Configs : action_connect_selected(cfg)
    \/ action_disconnect
    \/ \E j \in CJobIds : ConnectWorkerStart(j)
    \/ \E j \in CJobIds : create_session(j)
    \/ \E j \in CJobIds : on_success(j)
    \/ \E j \in CJobIds : on_error(j)
    \/ \E name \in ConfigNames : action_delete_connection(name)

SpecAppStore == InitAppStore /\ [][AppStoreNext]_vars

\* C38: the connection named by current_config is among the stored
\* connections, for a connection that is connected and for one whose
\* connect was in flight and has succeeded.
C38_CurrentConfigIsStored ==
    current_config # "none" => current_config \in Names(store)

----------------------------------------------------------------------------
\* The app starts with the tools at rest.
Init == AppInit /\ ToolsIdle

Next ==
    \/ \E cfg \in Configs : connect_to_server(cfg)
    \/ \E cfg \in Configs : action_connect_selected(cfg)
    \/ action_disconnect
    \/ \E j \in CJobIds : ConnectWorkerStart(j)
    \/ \E j \in CJobIds : create_session(j)
    \/ \E j \in CJobIds : on_success(j)
    \/ \E j \in CJobIds : on_error(j)
    \/ execute_query_common
    \/ \E q \in QIds : RunQueryStart(q)
    \/ \E q \in QIds : ExecOpen(q)
    \/ \E q \in QIds : ExecFinish(q)
    \/ \E q \in QIds : RunQueryResume(q)
    \/ action_cancel_query
    \/ action_cancel_operation

Spec == Init /\ [][Next]_vars

----------------------------------------------------------------------------
\* Claims about the connection session

\* Sessions that were created and whose connection has not been closed.
LiveSessions == {s \in CJobIds : sess[s].conn = "open"}

\* C1: in every reachable state at most one ConnectionSession that has been
\* created and not yet closed exists, and the installed session, if any, is
\* the only live one (an install never leaves an unclosed session behind).
C1_AtMostOneLiveSession ==
    /\ Cardinality(LiveSessions) <= 1
    /\ _session # None => LiveSessions \subseteq {_session}

\* C2: when the session of a later connect request is installed as the
\* current session, the session of every earlier request has had close()
\* called exactly once, so its connection and its tunnel are closed.
C2_FirstClosedOnceBeforeSecond ==
    \A i, j \in CJobIds :
        (i < j /\ _session = j /\ sess[i].conn # "none") =>
            /\ sess[i].closeCalls = 1
            /\ sess[i].conn = "closed"
            /\ sess[i].tunnel # "open"

\* C3: after a connect attempt has failed (on_error has run and no later
\* connect has reset the flag) no session state is left: _session,
\* current_connection, current_config, current_adapter and
\* current_ssh_tunnel are all None, and the failed attempt holds no open
\* connection or tunnel.
C3_FailedConnectLeavesNothing ==
    _connection_failed =>
        /\ _session = None
        /\ current_connection = None
        /\ current_config = "none"
        /\ current_adapter = None
        /\ current_ssh_tunnel = None

----------------------------------------------------------------------------
\* Claims about cancellable queries

\* C4: a query on which cancel() acted strictly before its execute()
\* finished (also before execute() had started) has isCancelled set, ends in
\* state CANCELLED, and no QueryResult or NonQueryResult of it is produced or
\* displayed.
C4_CancelBeforeFinish ==
    \A q \in QIds :
        qjob[q].cancelAt \in {"before_execute", "during_execute"} =>
            /\ qjob[q].flag
            /\ qjob[q].out \notin Results
            /\ qjob[q].shown \notin Results
            /\ ~(table.q = q /\ table.kind \in Results)
            /\ ~(last_result.q = q /\ last_result.kind \in Results)
            /\ qjob[q].cq \notin {"COMPLETED", "FAILED"}
            /\ qjob[q].th = "finished" => qjob[q].cq = "CANCELLED"

\* A query cancelled while its execute() was on the dedicated connection has
\* run to its end.
C4_Witness ==
    \E q \in QIds :
        /\ qjob[q].cancelAt = "during_execute"
        /\ qjob[q].th = "finished"
        /\ qjob[q].task = "done"

\* C5: a constructed query whose execute() has not begun holds no
\* connection, and a query cancelled before execute() is CANCELLED at once and
\* never holds a connection, also after the thread has gone through execute().
C5_NoConnectionBeforeExecute ==
    \A q \in QIds :
        /\ qjob[q].th = "start" => qjob[q].conn = "none"
        /\ qjob[q].cancelAt = "before_execute" =>
              /\ qjob[q].conn = "none"
              /\ qjob[q].cq = "CANCELLED"

\* A query cancelled before execute() whose thread then ran execute().
C5_Witness ==
    \E q \in QIds :
        /\ qjob[q].cancelAt = "before_execute"
        /\ qjob[q].th = "finished"

WritesResult(q) ==
    \/ table' # table /\ table'.q = q /\ table'.kind \in Results \cup {"error"}
    \/ last_result' # last_result /\ last_result'.q = q

\* C7: a result or error in the results table is that of the most recently
\* started query, and only the most recently started query, not cancelled,
\* ever writes to the table or the last-result buffers.
C7_OnlyLatestQueryWrites ==
    /\ [](table.kind \in Results \cup {"error"} => table.q = nq)
    /\ [][\A q \in QIds : WritesResult(q) =>
              (q = nq /\ ~qjob[q].cancelReq /\ ~qjob[q].flag)]_vars

\* A superseded query whose execute() returned a result that was dropped.
C7_Witness ==
    \E q \in QIds :
        /\ q < nq
        /\ qjob[q].out \in Results
        /\ qjob[q].task = "done"
        /\ qjob[q].shown = "none"

\* C8: a query that was cancelled by the user or superseded by a newer query
\* holds no open connection.
C8_CancelledHoldsNoConnection ==
    \A q \in QIds :
        (qjob[q].cancelAt # "none" \/ (qjob[q].cq # "none" /\ q < nq)) =>
            qjob[q].conn # "open"

\* Jobs whose thread is still at work.
ConnectJobsAtWork == {j \in CJobIds : cjob[j].st \in {"running", "deliver_ok", "deliver_err"}}
QueryJobsAtWork == {q \in QIds : qjob[q].th \in {"start", "opened"}}

\* C9: at most one connect job and at most one query job is in flight; a
\* job superseded by a newer one of its kind performs no further work.
C9_OneJobPerKind ==
    /\ Cardinality(ConnectJobsAtWork) <= 1
    /\ Cardinality(QueryJobsAtWork) <= 1

----------------------------------------------------------------------------
\* Claims about the displayed result

\* C11: once a new query has begun, neither the results table nor the
\* _last_result_* buffers present the successful result of an earlier query,
\* however the new query ends.
C11_PriorResultGone ==
    /\ table.kind \in Results => table.q = nq
    /\ last_result.kind \in Results => last_result.q = nq

----------------------------------------------------------------------------
\* Claims about closing the session

\* The session objects and the app's session fields.
AppSession ==
    [sess |-> sess, _session |-> _session, current_connection |-> current_connection,
     current_config |-> current_config, current_adapter |-> current_adapter,
     current_ssh_tunnel |-> current_ssh_tunnel]

\* A disconnect that closes the session whatever the fields say and leaves
\* it installed.
disconnect_Unguarded(a) ==
    [a EXCEPT !.sess = IF a._session # None THEN SessionClose(a.sess, a._session) ELSE @,
              !.current_connection = None, !.current_config = "none",
              !.current_adapter = None, !.current_ssh_tunnel = None]

\* action_disconnect as the handler runs on any state: nothing when
\* current_connection is None, else _disconnect_silent.
disconnect(a) ==
    IF a.current_connection = None
    THEN a
    ELSE [sess |-> IF a._session # None THEN SessionClose(a.sess, a._session) ELSE a.sess,
          _session |-> None, current_connection |-> None, current_config |-> "none",
          current_adapter |-> None, current_ssh_tunnel |-> None]

\* C30: a disconnect leaves the app where a second disconnect, with no
\* connect in between, changes nothing: the session fields stay None and
\* the closed session gets no further close(), so its connection is not
\* closed and its tunnel not stopped a second time.
C30_DisconnectIdempotent ==
    [][action_disconnect =>
          /\ AppSession' = disconnect(AppSession)
          /\ disconnect(AppSession') = AppSession'
          /\ \A s \in CJobIds :
                disconnect(AppSession').sess[s].closeCalls = sess'[s].closeCalls]_vars

\* The one session ever created, with a tunnel, was closed by a disconnect.
C30_Witness ==
    /\ pyodbc /\ ncon = 1 /\ current_connection = None /\ _session = None
    /\ sess[1].closeCalls = 1 /\ sess[1].conn = "closed" /\ sess[1].tunnel = "stopped"

----------------------------------------------------------------------------
\* Claims about the session fields

\* C35: _session, current_connection, current_config and current_adapter are
\* all None or all those of one session; current_ssh_tunnel is set only
\* with them, to that session's tunnel; _connection_failed is false while a
\* session is installed and live.
C35_SessionFieldsAgree ==
    /\ \/ /\ _session = None /\ current_connection = None
          /\ current_config = "none" /\ current_adapter = None
       \/ /\ _session # None /\ current_connection = _session
          /\ current_config = sess[_session].cfg /\ current_adapter = _session
    /\ current_ssh_tunnel # None => (_session # None /\ current_ssh_tunnel = _session)
    /\ (_session # None /\ sess[_session].conn = "open") => ~_connection_failed

----------------------------------------------------------------------------
\* Claims about the running query

\* C36: while the latest query is in flight (its coroutine awaits execute()
\* and nobody has cancelled it), _query_executing is true and
\* _cancellable_query is that query's CancellableQuery, so that
\* action_cancel_query reaches it; also right after it superseded another.
C36_RunningQueryIsCancellable ==
    \A q \in QIds :
        (/\ q = nq /\ qjob[q].task = "awaiting"
         /\ ~qjob[q].cancelReq /\ ~qjob[q].flag)
            => (_query_executing /\ _cancellable_query = q)

----------------------------------------------------------------------------
\* Claims about the query history

\* C39: the history gains an entry only for a query whose execute() has
\* returned a result and that was neither cancelled by the user nor
\* superseded; a query that failed, was cancelled or was superseded adds
\* nothing, and no entry is ever removed or rewritten in the app.
C39_HistoryOnlyAfterSuccess ==
    /\ [](\A e \in hist : qjob[e[2]].task = "done" /\ qjob[e[2]].out \in Results)
    /\ [][hist' # hist =>
            \E q \in QIds :
                /\ hist' = hist \cup {<<qjob[q].cfg, q>>}
                /\ qjob[q].task = "awaiting" /\ qjob'[q].task = "done"
                /\ qjob[q].th = "finished" /\ qjob[q].cq = "COMPLETED"
                /\ qjob[q].out \in Results
                /\ ~qjob[q].cancelReq /\ ~qjob[q].flag]_vars

\* One query is in the history; another, superseded after execute() had
\* returned its result, is not.
C39_Witness ==
    /\ Cardinality(hist) = 1
    /\ \E q \in QIds : /\ qjob[q].task = "done" /\ qjob[q].cancelReq
                        /\ qjob[q].out \in Results
                        /\ \A e \in hist : e[2] # q

====
